---- MODULE Spec2Model ----
(***************************************************************************)
(* dunamai: version derivation and serialization.                          *)
(*                                                                         *)
(* Python strings are sequences of one-character strings, so that          *)
(* formatting, splitting, regular-expression matching and validation are   *)
(* computed character by character as the library computes them.           *)
(* An Optional[T] value is <<>> for None and <<x>> for the value x.        *)
(* __defaults__ is the Version object that the default of get_version's   *)
(* fallback parameter is bound to when the module is loaded.               *)
(***************************************************************************)
EXTENDS Integers, Sequences, FiniteSets, TLC

VARIABLES op, args, result, __defaults__

vars == <<op, args, result, __defaults__>>

(***************************************************************************)
(* Bounds of the explored inputs.                                          *)
(***************************************************************************)
MaxDistance == 1
MaxSources == 3
(* the components of a base that bump_version is called with *)
MaxComponents == 3
(* the entries of a repository history, and the revisions the checked-out *)
(* one is behind the newest                                                *)
MaxHistory == 4
MaxBehind == 1
(* the entries of the history where a command fails, and where the system *)
(* is detected                                                             *)
MaxFailingHistory == 2
MaxDetectedHistory == 2

(***************************************************************************)
(* Optional values.                                                        *)
(***************************************************************************)
None == <<>>
Some(x) == <<x>>
IsNone(o) == o = <<>>
Get(o) == o[1]

(* _blank(value, default) *)
_blank(value, default) == IF IsNone(value) THEN default ELSE Get(value)

(***************************************************************************)
(* Characters and strings.                                                 *)
(***************************************************************************)
Digit == {"0", "1", "2", "3", "4", "5", "6", "7", "8", "9"}
Lower == {"a", "b", "c", "d", "e", "f", "g", "h", "i", "j", "k", "l", "m",
          "n", "o", "p", "q", "r", "s", "t", "u", "v", "w", "x", "y", "z"}
Upper == {"A", "B", "C", "D", "E", "F", "G", "H", "I", "J", "K", "L", "M",
          "N", "O", "P", "Q", "R", "S", "T", "U", "V", "W", "X", "Y", "Z"}
(* The code points between "Z" and "a", which the range A-z also spans     *)
(* (backslash and backquote, also in that range, are not in the alphabet   *)
(* of the explored strings).                                               *)
BetweenZa == {"[", "]", "^", "_"}

(* The printable ASCII characters in code-point order (Python compares    *)
(* strings by code point).                                                 *)
Ascii == <<" ", "!", "#", "$", "%", "&", "'", "(", ")", "*", "+", ",",
           "-", ".", "/", "0", "1", "2", "3", "4", "5", "6", "7", "8", "9",
           ":", ";", "<", "=", ">", "?", "@",
           "A", "B", "C", "D", "E", "F", "G", "H", "I", "J", "K", "L", "M",
           "N", "O", "P", "Q", "R", "S", "T", "U", "V", "W", "X", "Y", "Z",
           "[", "]", "^", "_",
           "a", "b", "c", "d", "e", "f", "g", "h", "i", "j", "k", "l", "m",
           "n", "o", "p", "q", "r", "s", "t", "u", "v", "w", "x", "y", "z",
           "{", "|", "}", "~">>

Ord(c) == CHOOSE i \in 1..Len(Ascii) : Ascii[i] = c

(* s < t on Python strings: lexicographic by code point. *)
RECURSIVE StrLess(_, _)
StrLess(s, t) ==
    IF t = <<>> THEN FALSE
    ELSE IF s = <<>> THEN TRUE
    ELSE IF Head(s) = Head(t) THEN StrLess(Tail(s), Tail(t))
    ELSE Ord(Head(s)) < Ord(Head(t))

DigitChars == <<"0", "1", "2", "3", "4", "5", "6", "7", "8", "9">>

(* str(n) for an int n *)
RECURSIVE StrNat(_)
StrNat(n) ==
    IF n < 10 THEN <<DigitChars[n + 1]>>
    ELSE StrNat(n \div 10) \o <<DigitChars[(n % 10) + 1]>>

Str(n) == IF n < 0 THEN <<"-">> \o StrNat(0 - n) ELSE StrNat(n)

IsDigits(s) == Len(s) > 0 /\ \A i \in 1..Len(s) : s[i] \in Digit

DigitVal(c) == (CHOOSE i \in 1..10 : DigitChars[i] = c) - 1

(* int(s) for a string of decimal digits *)
RECURSIVE ToInt(_)
ToInt(s) ==
    IF Len(s) = 0 THEN 0
    ELSE 10 * ToInt(SubSeq(s, 1, Len(s) - 1)) + DigitVal(s[Len(s)])

(* sep.join(parts) *)
RECURSIVE Join(_, _)
Join(sep, parts) ==
    IF Len(parts) = 0 THEN <<>>
    ELSE IF Len(parts) = 1 THEN parts[1]
    ELSE parts[1] \o sep \o Join(sep, Tail(parts))

(* s.split(c) for a one-character separator c *)
RECURSIVE SplitFrom(_, _, _)
SplitFrom(s, seps, cur) ==
    IF s = <<>> THEN <<cur>>
    ELSE IF Head(s) \in seps THEN <<cur>> \o SplitFrom(Tail(s), seps, <<>>)
    ELSE SplitFrom(Tail(s), seps, Append(cur, Head(s)))

Split(s, c) == SplitFrom(s, {c}, <<>>)

(* re.split(r"[.-]", s) *)
SplitAny(s, seps) == SplitFrom(s, seps, <<>>)

(* s.split("+", 1)[0] *)
RECURSIVE BeforeFirst(_, _)
BeforeFirst(s, c) ==
    IF s = <<>> \/ Head(s) = c THEN <<>>
    ELSE <<Head(s)>> \o BeforeFirst(Tail(s), c)

(***************************************************************************)
(* Regular expressions (Python re): a backtracking matcher.  A pattern   *)
(* is a syntax tree; Run gives every way the tree matches s from position  *)
(* i, in the order the backtracking engine tries them, each with the       *)
(* position after the match and the named groups captured on the way.      *)
(***************************************************************************)
RSet(c) == [t |-> "set", c |-> c]
RChr(c) == [t |-> "set", c |-> {c}]
RAny == [t |-> "any"]
RBol == [t |-> "bol"]
REol == [t |-> "eol"]
REps == [t |-> "eps"]
RCat(a, b) == [t |-> "cat", a |-> a, b |-> b]
RAlt(a, b) == [t |-> "alt", a |-> a, b |-> b]
ROpt(a) == [t |-> "opt", a |-> a]
RStar(a) == [t |-> "star", a |-> a]
RPlus(a) == RCat(a, RStar(a))
RGroup(n, a) == [t |-> "grp", n |-> n, a |-> a]

RECURSIVE RSeq(_)
RSeq(rs) == IF Len(rs) = 0 THEN REps
            ELSE IF Len(rs) = 1 THEN rs[1]
            ELSE RCat(rs[1], RSeq(Tail(rs)))

(* The named groups a pattern defines. *)
RECURSIVE GroupNames(_)
GroupNames(r) ==
    CASE r.t \in {"set", "any", "bol", "eol", "eps"} -> {}
      [] r.t \in {"cat", "alt"} -> GroupNames(r.a) \cup GroupNames(r.b)
      [] r.t \in {"opt", "star"} -> GroupNames(r.a)
      [] r.t = "grp" -> {r.n} \cup GroupNames(r.a)

RECURSIVE Run(_, _, _, _)
RECURSIVE RunEach(_, _, _)
RECURSIVE RunStar(_, _, _, _)
RECURSIVE RunGroup(_, _, _, _)

(* r from each of the matches ms, in order *)
RunEach(r, s, ms) ==
    IF Len(ms) = 0 THEN <<>>
    ELSE Run(r, s, ms[1].pos, ms[1].caps) \o RunEach(r, s, Tail(ms))

(* one more round of the greedy star r from each match that consumed input *)
RunStar(r, s, i, ms) ==
    IF Len(ms) = 0 THEN <<>>
    ELSE (IF ms[1].pos > i THEN Run(r, s, ms[1].pos, ms[1].caps) ELSE <<>>)
         \o RunStar(r, s, i, Tail(ms))

(* record what the group n captured in each match *)
RunGroup(n, s, i, ms) ==
    IF Len(ms) = 0 THEN <<>>
    ELSE <<[pos |-> ms[1].pos,
            caps |-> [ms[1].caps EXCEPT ![n] = Some(SubSeq(s, i, ms[1].pos - 1))]]>>
         \o RunGroup(n, s, i, Tail(ms))

Run(r, s, i, caps) ==
    LET here == <<[pos |-> i, caps |-> caps]>>
        next == <<[pos |-> i + 1, caps |-> caps]>>
    IN CASE r.t = "set" -> IF i <= Len(s) /\ s[i] \in r.c THEN next ELSE <<>>
         [] r.t = "any" -> IF i <= Len(s) /\ s[i] # "\n" THEN next ELSE <<>>
         [] r.t = "bol" -> IF i = 1 THEN here ELSE <<>>
         [] r.t = "eol" -> IF i = Len(s) + 1 THEN here ELSE <<>>
         [] r.t = "eps" -> here
         [] r.t = "cat" -> RunEach(r.b, s, Run(r.a, s, i, caps))
         [] r.t = "alt" -> Run(r.a, s, i, caps) \o Run(r.b, s, i, caps)
         [] r.t = "opt" -> Run(r.a, s, i, caps) \o here
         [] r.t = "star" -> RunStar(r, s, i, Run(r.a, s, i, caps)) \o here
         [] r.t = "grp" -> RunGroup(r.n, s, i, Run(r.a, s, i, caps))

(* re.search(pattern, s): the first match from the leftmost start, None if *)
(* there is none; the match is its named groups.                           *)
RECURSIVE SearchFrom(_, _, _)
SearchFrom(r, s, start) ==
    IF start > Len(s) + 1 THEN None
    ELSE LET ms == Run(r, s, start, [n \in GroupNames(r) |-> None])
         IN IF Len(ms) > 0 THEN Some(ms[1].caps) ELSE SearchFrom(r, s, start + 1)

re_search(r, s) == SearchFrom(r, s, 1)

(***************************************************************************)
(* The patterns of the library.                                            *)
(***************************************************************************)
RDigit == RSet(Digit)
RLetter == RSet(Lower \cup Upper)
(* [a-zA-z0-9\-] as written in _VALID_SEMVER: the range A-z, not A-Z *)
RSemVerChar == RSet(Lower \cup Upper \cup BetweenZa \cup Digit \cup {"-"})
RAlnum == RSet(Lower \cup Upper \cup Digit)

RECURSIVE RLit(_)
RLit(s) == IF Len(s) = 0 THEN REps
           ELSE IF Len(s) = 1 THEN RChr(s[1])
           ELSE RCat(RChr(s[1]), RLit(Tail(s)))

\* ^v(?P<base>\d+(\.\d+)*)(-?((?P<stage>[a-zA-Z]+)\.?(?P<revision>\d+)?))?(\+(?P<tagged_metadata>.+))?$
_VERSION_PATTERN ==
    RSeq(<<RBol,
           RChr("v"),
           RGroup("base", RCat(RPlus(RDigit), RStar(RCat(RChr("."), RPlus(RDigit))))),
           ROpt(RCat(ROpt(RChr("-")),
                     RSeq(<<RGroup("stage", RPlus(RLetter)),
                            ROpt(RChr(".")),
                            ROpt(RGroup("revision", RPlus(RDigit)))>>))),
           ROpt(RCat(RChr("+"), RGroup("tagged_metadata", RPlus(RAny)))),
           REol>>)

\* ^(\d!)?\d+(\.\d+)*((a|b|rc)\d+)?(\.post\d+)?(\.dev\d+)?(\+.+)?$
_VALID_PEP440 ==
    RSeq(<<RBol,
           ROpt(RCat(RDigit, RChr("!"))),
           RPlus(RDigit),
           RStar(RCat(RChr("."), RPlus(RDigit))),
           ROpt(RCat(RAlt(RChr("a"), RAlt(RChr("b"), RLit(<<"r", "c">>))), RPlus(RDigit))),
           ROpt(RCat(RLit(<<".", "p", "o", "s", "t">>), RPlus(RDigit))),
           ROpt(RCat(RLit(<<".", "d", "e", "v">>), RPlus(RDigit))),
           ROpt(RCat(RChr("+"), RPlus(RAny))),
           REol>>)

\* ^\d+\.\d+\.\d+(\-[a-zA-z0-9\-]+(\.[a-zA-z0-9\-]+)*)?(\+[a-zA-z0-9\-]+(\.[a-zA-z0-9\-]+)*)?$
RSemVerIds == RCat(RPlus(RSemVerChar), RStar(RCat(RChr("."), RPlus(RSemVerChar))))

_VALID_SEMVER ==
    RSeq(<<RBol,
           RPlus(RDigit), RChr("."), RPlus(RDigit), RChr("."), RPlus(RDigit),
           ROpt(RCat(RChr("-"), RSemVerIds)),
           ROpt(RCat(RChr("+"), RSemVerIds)),
           REol>>)

\* ^\d+(\.\d+)*(-[a-zA-Z0-9]+)*$
_VALID_PVP ==
    RSeq(<<RBol,
           RPlus(RDigit),
           RStar(RCat(RChr("."), RPlus(RDigit))),
           RStar(RCat(RChr("-"), RPlus(RAlnum))),
           REol>>)

(* ^0[0-9]+$ *)
LeadingZero == RSeq(<<RBol, RChr("0"), RPlus(RDigit), REol>>)

Pep440 == "pep440"
SemVer == "semver"
Pvp == "pvp"
Style == {Pep440, SemVer, Pvp}

(***************************************************************************)
(* Results of a call: a returned value or a raised exception.              *)
(***************************************************************************)
Ret(v) == [kind |-> "return", value |-> v]
Raise(exc, msg) == [kind |-> "raise", exc |-> exc, msg |-> msg]
Returned(r) == r.kind = "return"
Raised(r) == r.kind = "raise"

(* check_version(version, style): TRUE when it returns, FALSE when it      *)
(* raises ValueError.                                                      *)
check_version(version, style) ==
    LET pattern == CASE style = Pep440 -> _VALID_PEP440
                     [] style = SemVer -> _VALID_SEMVER
                     [] style = Pvp -> _VALID_PVP
    IN IF IsNone(re_search(pattern, version)) THEN FALSE
       ELSE IF style = SemVer
            THEN LET parts == SplitAny(BeforeFirst(version, "+"), {".", "-"})
                 IN ~ \E i \in 1..Len(parts) : ~IsNone(re_search(LeadingZero, parts[i]))
            ELSE TRUE

NotConform == "does not conform to the style"

(***************************************************************************)
(* Version.                                                                *)
(***************************************************************************)
(* Version.__init__: stage is None or the pair <<name, revision>>. *)
Version(base, stage, distance, commit, dirty, tagged_metadata) ==
    [base |-> base,
     stage |-> IF IsNone(stage) THEN None ELSE Some(Get(stage)[1]),
     revision |-> IF IsNone(stage) THEN None ELSE Get(stage)[2],
     distance |-> distance,
     commit |-> commit,
     dirty |-> dirty,
     tagged_metadata |-> tagged_metadata,
     _matched_tag |-> None,
     _newer_unmatched_tags |-> None]

(* bases[index] with Python indexing: the 1-based position, 0 when the    *)
(* index is out of range.                                                  *)
PyIndex(n, index) ==
    IF index >= 0 /\ index < n THEN index + 1
    ELSE IF index < 0 /\ index >= 0 - n THEN n + index + 1
    ELSE 0

(* the while loop of bump_version never entered *)
ZeroFrom_Kept(bases, i, limit) == bases

(* bases[i] = 0 for the indices the while loop of bump_version visits *)
RECURSIVE ZeroFrom(_, _, _)
ZeroFrom(bases, i, limit) ==
    IF i < limit
    THEN ZeroFrom([bases EXCEPT ![PyIndex(Len(bases), i)] = 0], i + 1, limit)
    ELSE bases

bump_version(base, index) ==
    LET parts == Split(base, ".")
    IN IF \E k \in 1..Len(parts) : ~IsDigits(parts[k])
       THEN Raise("ValueError", "invalid literal for int()")
       ELSE LET bases == [k \in 1..Len(parts) |-> ToInt(parts[k])]
                at == PyIndex(Len(bases), index)
            IN IF at = 0
               THEN Raise("IndexError", "list index out of range")
               ELSE LET bumped == [bases EXCEPT ![at] = @ + 1]
                        limit == IF index < 0 THEN 0 ELSE Len(bases)
                        zeroed == ZeroFrom(bumped, index + 1, limit)
                    IN Ret(Join(<<".">>, [k \in 1..Len(zeroed) |-> Str(zeroed[k])]))

(* "+" and the joined metadata, when there is any *)
Suffix(lead, sep, parts) ==
    IF ~IsNone(parts) /\ Len(Get(parts)) > 0
    THEN lead \o Join(sep, Get(parts))
    ELSE <<>>

(* the serializer returning without the call of check_version *)
Checked_Unvalidated(serialized, style) == Ret(serialized)

Checked(serialized, style) ==
    IF check_version(serialized, style)
    THEN Ret(serialized)
    ELSE Raise("ValueError", NotConform)

serialize_pep440(base, stage, revision, post, dev, epoch, metadata) ==
    LET serialized ==
            (IF IsNone(epoch) THEN <<>> ELSE Str(Get(epoch)) \o <<"!">>)
         \o base
         \o (IF IsNone(stage) THEN <<>>
             ELSE Get(stage) \o (IF IsNone(revision) THEN Str(0) ELSE Str(Get(revision))))
         \o (IF IsNone(post) THEN <<>> ELSE <<".", "p", "o", "s", "t">> \o Str(Get(post)))
         \o (IF IsNone(dev) THEN <<>> ELSE <<".", "d", "e", "v">> \o Str(Get(dev)))
         \o Suffix(<<"+">>, <<".">>, metadata)
    IN Checked(serialized, Pep440)

serialize_semver(base, pre, metadata) ==
    LET serialized == base \o Suffix(<<"-">>, <<".">>, pre)
                           \o Suffix(<<"+">>, <<".">>, metadata)
    IN Checked(serialized, SemVer)

serialize_pvp(base, metadata) ==
    LET serialized == base \o Suffix(<<"-">>, <<"-">>, metadata)
    IN Checked(serialized, Pvp)

(* str.lower() *)
LowerOf(c) == IF c \in Upper THEN Ascii[Ord(c) + 30] ELSE c
lower(s) == [i \in 1..Len(s) |-> LowerOf(s[i])]

(* alternative_stages.get(stage.lower(), stage.lower()) *)
alternative_stages(stage) ==
    LET name == lower(stage)
    IN CASE name = <<"a", "l", "p", "h", "a">> -> <<"a">>
         [] name = <<"b", "e", "t", "a">> -> <<"b">>
         [] name = <<"c">> -> <<"r", "c">>
         [] name = <<"p", "r", "e">> -> <<"r", "c">>
         [] name = <<"p", "r", "e", "v", "i", "e", "w">> -> <<"r", "c">>
         [] OTHER -> name

(* formatters.format_pieces_as_pep440: the stage is normalized and the    *)
(* result is returned unchecked                                            *)
format_pieces_as_pep440(base, stage, revision, post, dev, epoch, metadata) ==
    Ret((IF IsNone(epoch) THEN <<>> ELSE Str(Get(epoch)) \o <<"!">>)
        \o base
        \o (IF IsNone(stage) THEN <<>>
            ELSE alternative_stages(Get(stage))
                 \o (IF IsNone(revision) THEN Str(0) ELSE Str(Get(revision))))
        \o (IF IsNone(post) THEN <<>> ELSE <<".", "p", "o", "s", "t">> \o Str(Get(post)))
        \o (IF IsNone(dev) THEN <<>> ELSE <<".", "d", "e", "v">> \o Str(Get(dev)))
        \o Suffix(<<"+">>, <<".">>, metadata))

(* format.format(...): a template is a sequence of literal characters and  *)
(* replacement fields, a field being its name in braces.                   *)
Fields == {"{base}", "{stage}", "{revision}", "{distance}", "{commit}",
           "{tagged_metadata}", "{dirty}"}

RECURSIVE Render(_, _)
Render(format, values) ==
    IF Len(format) = 0 THEN <<>>
    ELSE (IF Head(format) \in Fields THEN values[Head(format)] ELSE <<Head(format)>>)
         \o Render(Tail(format), values)

Truthy(o) == ~IsNone(o) /\ Get(o) = TRUE

Dirty == <<"d", "i", "r", "t", "y">>

(* the base and the revision after the bump step of Version.serialize *)
bumped_base(self, bump) ==
    IF bump /\ IsNone(self.stage) THEN bump_version(self.base, -1) ELSE Ret(self.base)

(* the bump step with an unset revision counted as 0, so bumped to 1 *)
bumped_revision_UnsetToOne(self, bump) ==
    IF bump /\ ~IsNone(self.stage)
    THEN (IF IsNone(self.revision) THEN Some(1) ELSE Some(Get(self.revision) + 1))
    ELSE self.revision

bumped_revision(self, bump) ==
    IF bump /\ ~IsNone(self.stage)
    THEN (IF IsNone(self.revision) THEN Some(2) ELSE Some(Get(self.revision) + 1))
    ELSE self.revision

(* the format branch returning the rendered text without check_version *)
format_out_Unchecked(self, base, revision, format, style) ==
    Ret(Render(format,
               [f \in Fields |->
                  CASE f = "{base}" -> base
                    [] f = "{stage}" -> _blank(self.stage, <<>>)
                    [] f = "{revision}" ->
                         IF IsNone(revision) THEN <<>> ELSE Str(Get(revision))
                    [] f = "{distance}" -> Str(self.distance)
                    [] f = "{commit}" -> _blank(self.commit, <<>>)
                    [] f = "{tagged_metadata}" -> _blank(self.tagged_metadata, <<>>)
                    [] f = "{dirty}" ->
                         IF Truthy(self.dirty) THEN Dirty
                         ELSE <<"c", "l", "e", "a", "n">>]))

(* the format branch of Version.serialize *)
format_out(self, base, revision, format, style) ==
    LET rendered ==
            Render(format,
                   [f \in Fields |->
                      CASE f = "{base}" -> base
                        [] f = "{stage}" -> _blank(self.stage, <<>>)
                        [] f = "{revision}" ->
                             IF IsNone(revision) THEN <<>> ELSE Str(Get(revision))
                        [] f = "{distance}" -> Str(self.distance)
                        [] f = "{commit}" -> _blank(self.commit, <<>>)
                        [] f = "{tagged_metadata}" -> _blank(self.tagged_metadata, <<>>)
                        [] f = "{dirty}" ->
                             IF Truthy(self.dirty) THEN Dirty
                             ELSE <<"c", "l", "e", "a", "n">>])
    IN IF ~IsNone(style) THEN Checked(rendered, Get(style)) ELSE Ret(rendered)

(* meta_parts with the dirty flag under the condition of the commit *)
meta_parts_DirtyLikeCommit(self, metadata, dirty, tagged_metadata) ==
    IF metadata # Some(FALSE)
    THEN (IF tagged_metadata /\ ~IsNone(self.tagged_metadata)
                             /\ Len(Get(self.tagged_metadata)) > 0
          THEN <<Get(self.tagged_metadata)>> ELSE <<>>)
      \o (IF (Truthy(metadata) \/ self.distance > 0) /\ ~IsNone(self.commit)
          THEN <<Get(self.commit)>> ELSE <<>>)
      \o (IF (Truthy(metadata) \/ self.distance > 0) /\ dirty /\ Truthy(self.dirty)
          THEN <<Dirty>> ELSE <<>>)
    ELSE <<>>

(* meta_parts with the commit whatever the distance *)
meta_parts_CommitAlways(self, metadata, dirty, tagged_metadata) ==
    IF metadata # Some(FALSE)
    THEN (IF tagged_metadata /\ ~IsNone(self.tagged_metadata)
                             /\ Len(Get(self.tagged_metadata)) > 0
          THEN <<Get(self.tagged_metadata)>> ELSE <<>>)
      \o (IF ~IsNone(self.commit) THEN <<Get(self.commit)>> ELSE <<>>)
      \o (IF dirty /\ Truthy(self.dirty) THEN <<Dirty>> ELSE <<>>)
    ELSE <<>>

(* meta_parts of Version.serialize *)
meta_parts(self, metadata, dirty, tagged_metadata) ==
    IF metadata # Some(FALSE)
    THEN (IF tagged_metadata /\ ~IsNone(self.tagged_metadata)
                             /\ Len(Get(self.tagged_metadata)) > 0
          THEN <<Get(self.tagged_metadata)>> ELSE <<>>)
      \o (IF (Truthy(metadata) \/ self.distance > 0) /\ ~IsNone(self.commit)
          THEN <<Get(self.commit)>> ELSE <<>>)
      \o (IF dirty /\ Truthy(self.dirty) THEN <<Dirty>> ELSE <<>>)
    ELSE <<>>

(* pre_parts of Version.serialize *)
pre_parts(self, revision, bump) ==
       (IF ~IsNone(self.stage)
        THEN <<Get(self.stage)>>
             \o (IF ~IsNone(revision) THEN <<Str(Get(revision))>> ELSE <<>>)
        ELSE <<>>)
    \o (IF self.distance > 0
        THEN <<IF bump THEN <<"p", "r", "e">> ELSE <<"p", "o", "s", "t">>,
               Str(self.distance)>>
        ELSE <<>>)

(* the Style.Pep440 branch with the distance always in the post segment *)
pep440_out_BumpIgnored(self, base, revision, bump, meta) ==
    IF self.distance <= 0
    THEN serialize_pep440(base, self.stage, revision, None, None, None, Some(meta))
    ELSE serialize_pep440(base, self.stage, revision, Some(self.distance), Some(0),
                          None, Some(meta))

(* the Style.Pep440 branch without the .dev0 segment after .postN *)
pep440_out_PostOnly(self, base, revision, bump, meta) ==
    IF self.distance <= 0
    THEN serialize_pep440(base, self.stage, revision, None, None, None, Some(meta))
    ELSE serialize_pep440(base, self.stage, revision,
                          IF bump THEN None ELSE Some(self.distance),
                          IF bump THEN Some(self.distance) ELSE None,
                          None, Some(meta))

(* the Style.Pep440 branch of Version.serialize *)
pep440_out(self, base, revision, bump, meta) ==
    IF self.distance <= 0
    THEN serialize_pep440(base, self.stage, revision, None, None, None, Some(meta))
    ELSE serialize_pep440(base, self.stage, revision,
                          IF bump THEN None ELSE Some(self.distance),
                          IF bump THEN Some(self.distance) ELSE Some(0),
                          None, Some(meta))

(* Version.serialize *)
serialize(self, metadata, dirty, format, style, bump, tagged_metadata) ==
    LET bumped == bumped_base(self, bump)
        base == bumped.value
        revision == bumped_revision(self, bump)
        the_style == IF IsNone(style) THEN Pep440 ELSE Get(style)
        meta == meta_parts(self, metadata, dirty, tagged_metadata)
        pre == pre_parts(self, revision, bump)
        out ==
            CASE the_style = Pep440 -> pep440_out(self, base, revision, bump, meta)
              [] the_style = SemVer -> serialize_semver(base, Some(pre), Some(meta))
              [] the_style = Pvp -> serialize_pvp(base, Some(pre \o meta))
    IN IF Raised(bumped) THEN bumped
       ELSE IF ~IsNone(format) THEN format_out(self, base, revision, Get(format), style)
       ELSE IF Raised(out) THEN out
       ELSE Checked(out.value, the_style)

(***************************************************************************)
(* Equality and ordering of Versions.                                      *)
(***************************************************************************)
RECURSIVE StripZeros(_)
StripZeros(t) ==
    IF Len(t) > 0 /\ t[Len(t)] = 0 THEN StripZeros(SubSeq(t, 1, Len(t) - 1)) ELSE t

(* the release tuple of a dotted-numeric version *)
Release(base) ==
    LET parts == Split(base, ".") IN [k \in 1..Len(parts) |-> ToInt(parts[k])]

(* a < b on tuples of ints *)
RECURSIVE TupleLess(_, _)
TupleLess(a, b) ==
    IF Len(b) = 0 THEN FALSE
    ELSE IF Len(a) = 0 THEN TRUE
    ELSE IF a[1] = b[1] THEN TupleLess(Tail(a), Tail(b))
    ELSE a[1] < b[1]

(* packaging.version.parse(a) < packaging.version.parse(b) for release-   *)
(* only versions: the release tuples without trailing zeros are compared  *)
ParsedLess(a, b) == TupleLess(StripZeros(Release(a)), StripZeros(Release(b)))

(* equality with the dirty flag taken as a bool, as __lt__ takes it *)
__eq___DirtyAsBool(self, other) ==
    /\ self.base = other.base
    /\ self.stage = other.stage
    /\ self.revision = other.revision
    /\ self.distance = other.distance
    /\ self.commit = other.commit
    /\ Truthy(self.dirty) = Truthy(other.dirty)

(* Version.__eq__ *)
__eq__(self, other) ==
    /\ self.base = other.base
    /\ self.stage = other.stage
    /\ self.revision = other.revision
    /\ self.distance = other.distance
    /\ self.commit = other.commit
    /\ self.dirty = other.dirty

(* Version.__lt__ *)
__lt__(self, other) ==
    /\ ParsedLess(self.base, other.base)
    /\ StrLess(_blank(self.stage, <<>>), _blank(other.stage, <<>>))
    /\ _blank(self.revision, 0) < _blank(other.revision, 0)
    /\ self.distance < other.distance
    /\ StrLess(_blank(self.commit, <<>>), _blank(other.commit, <<>>))
    /\ ~Truthy(self.dirty) /\ Truthy(other.dirty)

(* the operators functools.total_ordering derives from __lt__ and __eq__ *)
__ne__(self, other) == ~__eq__(self, other)
__gt__(self, other) == ~__lt__(self, other) /\ __ne__(self, other)
__le__(self, other) == __lt__(self, other) \/ __eq__(self, other)
__ge__(self, other) == ~__lt__(self, other)

(***************************************************************************)
(* Version.parse, the reverse of the default serialization: the text is    *)
(* [N!]base[stage[revision]][+metadata] or                                 *)
(* [N!]base[.postN][.devM][+metadata]; anything else is a literal base.    *)
(***************************************************************************)
REpoch == ROpt(RCat(RGroup("epoch", RPlus(RDigit)), RChr("!")))
RBase == RGroup("base", RCat(RPlus(RDigit), RStar(RCat(RChr("."), RPlus(RDigit)))))
RMetadata == ROpt(RCat(RChr("+"), RGroup("tagged_metadata", RPlus(RAny))))

ParseStaged ==
    RSeq(<<RBol, REpoch, RBase,
           ROpt(RCat(RGroup("stage", RPlus(RLetter)),
                     ROpt(RGroup("revision", RPlus(RDigit))))),
           RMetadata, REol>>)

ParsePostDev ==
    RSeq(<<RBol, REpoch, RBase,
           ROpt(RCat(RLit(<<".", "p", "o", "s", "t">>), RGroup("post", RPlus(RDigit)))),
           ROpt(RCat(RLit(<<".", "d", "e", "v">>), RGroup("dev", RPlus(RDigit)))),
           RMetadata, REol>>)

Clean == <<"c", "l", "e", "a", "n">>
HexDigit == Digit \cup {"a", "b", "c", "d", "e", "f"}
IsDistanceToken(seg) == IsDigits(seg) \/ (Len(seg) > 1 /\ seg[1] = "d" /\ IsDigits(Tail(seg)))
IsHex(seg) == Len(seg) > 0 /\ \A i \in 1..Len(seg) : seg[i] \in HexDigit
IsCommitToken(seg) == IsHex(seg) \/ (Len(seg) > 1 /\ seg[1] = "g" /\ IsHex(Tail(seg)))

(* the metadata segments from the k-th on: the first dirty/clean token,   *)
(* the first distance token and the first commit token are taken, the     *)
(* other segments stay tagged metadata                                     *)
RECURSIVE ParseMetadata(_, _, _)
ParseMetadata(segs, k, acc) ==
    IF k > Len(segs) THEN acc
    ELSE LET seg == segs[k]
         IN IF IsNone(acc.dirty) /\ seg \in {Dirty, Clean}
            THEN ParseMetadata(segs, k + 1, [acc EXCEPT !.dirty = Some(seg = Dirty)])
            ELSE IF IsNone(acc.distance) /\ IsDistanceToken(seg)
            THEN ParseMetadata(segs, k + 1,
                     [acc EXCEPT !.distance =
                         Some(ToInt(IF seg[1] = "d" THEN Tail(seg) ELSE seg))])
            ELSE IF IsNone(acc.commit) /\ IsCommitToken(seg)
            THEN ParseMetadata(segs, k + 1,
                     [acc EXCEPT !.commit =
                         Some(IF seg[1] = "g" /\ ~IsHex(seg) THEN Tail(seg) ELSE seg)])
            ELSE ParseMetadata(segs, k + 1, [acc EXCEPT !.rest = Append(@, seg)])

WithEpoch(v, epoch) ==
    [f \in DOMAIN v \cup {"epoch"} |-> IF f = "epoch" THEN epoch ELSE v[f]]

parse(text) ==
    LET staged == re_search(ParseStaged, text)
        postdev == re_search(ParsePostDev, text)
        m == IF ~IsNone(staged) THEN Get(staged) ELSE Get(postdev)
        meta == ParseMetadata(IF IsNone(m.tagged_metadata) THEN <<>>
                              ELSE Split(Get(m.tagged_metadata), "."),
                              1,
                              [dirty |-> None, distance |-> None, commit |-> None,
                               rest |-> <<>>])
        tagged == IF Len(meta.rest) = 0 THEN None ELSE Some(Join(<<".">>, meta.rest))
        epoch == IF IsNone(m.epoch) THEN None ELSE Some(ToInt(Get(m.epoch)))
        counted == _blank(meta.distance, 0)
    IN IF ~IsNone(staged)
       THEN WithEpoch(Version(m.base[1],
                              IF IsNone(m.stage) THEN None
                              ELSE Some(<<Get(m.stage),
                                          IF IsNone(m.revision) THEN None
                                          ELSE Some(ToInt(Get(m.revision)))>>),
                              counted, meta.commit, meta.dirty, tagged),
                      epoch)
       ELSE IF ~IsNone(postdev)
       THEN WithEpoch(Version(m.base[1],
                              IF ~IsNone(m.post) /\ IsNone(m.dev)
                              THEN Some(<<<<"p", "o", "s", "t">>, Some(ToInt(Get(m.post)))>>)
                              ELSE None,
                              counted + (IF ~IsNone(m.dev)
                                         THEN ToInt(Get(IF IsNone(m.post) THEN m.dev ELSE m.post))
                                         ELSE 0),
                              meta.commit, meta.dirty, tagged),
                      epoch)
       ELSE WithEpoch(Version(text, None, 0, None, None, None), None)

(***************************************************************************)
(* _match_version_pattern.                                                 *)
(***************************************************************************)
NoBase == "did not include required capture group 'base'"
NoLatest == "did not match the latest tag"
NoTags == "did not match any tags"

(* pattern_match.group(name): raises IndexError when the pattern defines   *)
(* no such group.                                                          *)
HasGroup(pattern, name) == name \in GroupNames(pattern)

(* the missing base group reported as a pattern that matched no tag *)
MissingBase_AsNoTags(pattern, sources) ==
    Raise("ValueError", [text |-> NoTags, pattern |-> pattern, sources |-> sources])

(* the except IndexError branch of the loop *)
MissingBase(pattern, sources) ==
    Raise("ValueError", [text |-> NoBase, pattern |-> pattern])

(* the try block after the loop: stage, revision and tagged_metadata are   *)
(* read in this order, and the first missing group ends the block          *)
MatchedGroups(pattern, m) ==
    IF ~HasGroup(pattern, "stage") \/ ~HasGroup(pattern, "revision")
    THEN [stage_revision |-> None, tagged_metadata |-> None]
    ELSE IF ~HasGroup(pattern, "tagged_metadata")
    THEN [stage_revision |-> None, tagged_metadata |-> None]
    ELSE [stage_revision |->
              IF IsNone(m.stage) THEN None
              ELSE IF IsNone(m.revision) THEN Some(<<Get(m.stage), None>>)
              ELSE Some(<<Get(m.stage), Some(ToInt(Get(m.revision)))>>),
          tagged_metadata |-> m.tagged_metadata]

(* the for loop from the k-th scanned source on, and what follows it *)
RECURSIVE MatchLoop(_, _, _, _, _, _)
MatchLoop(pattern, sources, latest_source, scanned, k, newer_unmatched_tags) ==
    IF k > Len(scanned)
    THEN IF latest_source
         THEN (IF Len(sources) = 0
               THEN Raise("IndexError", [text |-> "list index out of range"])
               ELSE Raise("ValueError",
                          [text |-> NoLatest, pattern |-> pattern,
                           tag |-> sources[1], sources |-> sources]))
         ELSE Raise("ValueError", [text |-> NoTags, pattern |-> pattern, sources |-> sources])
    ELSE LET source == scanned[k]
             pattern_match == re_search(pattern, source)
         IN IF IsNone(pattern_match)
            THEN MatchLoop(pattern, sources, latest_source, scanned, k + 1,
                           Append(newer_unmatched_tags, source))
            ELSE IF ~HasGroup(pattern, "base")
            THEN MissingBase(pattern, sources)
            ELSE IF ~IsNone(Get(pattern_match).base)
            THEN LET g == MatchedGroups(pattern, Get(pattern_match))
                 IN Ret([matched_tag |-> source,
                         base |-> Get(Get(pattern_match).base),
                         stage_revision |-> g.stage_revision,
                         newer_tags |-> newer_unmatched_tags,
                         tagged_metadata |-> g.tagged_metadata])
            ELSE MatchLoop(pattern, sources, latest_source, scanned, k + 1,
                           newer_unmatched_tags)

(* the matcher scanning every source also with latest_source *)
_match_version_pattern_ScansAll(pattern, sources, latest_source) ==
    MatchLoop(pattern, sources, latest_source, sources, 1, <<>>)

_match_version_pattern(pattern, sources, latest_source) ==
    MatchLoop(pattern, sources, latest_source,
              IF latest_source THEN SubSeq(sources, 1, IF Len(sources) > 0 THEN 1 ELSE 0)
              ELSE sources,
              1, <<>>)

(***************************************************************************)
(* The version control backends.  A repository is a history, the sequence  *)
(* of what was done to it: <<>> stands for a commit, a tag name for the    *)
(* creation of that tag on the revision that was newest then, or, for the  *)
(* last tag of a repository with older set, on the first revision.  In     *)
(* Subversion and Darcs, and in Mercurial unless the tag is local, the     *)
(* creation of a tag is a revision of its own; in Git, Bazaar and Fossil   *)
(* it is not.  behind is the number of revisions between the checked-out   *)
(* revision and the newest one.  Each entry of the history is made at a    *)
(* later second than the one before it.  The tags of a Git repository are  *)
(* all annotated or all lightweight; those of a Subversion repository are  *)
(* copies of the trunk in the directory tags_in, and the directories tags  *)
(* and releases exist from the first revision.  installed is the set of    *)
(* systems whose program is found; fails is the command that exits with    *)
(* code in this environment whatever the repository is, "" if there is     *)
(* none.  The commands are modelled by what the tools answer for such a    *)
(* repository, the code by what it does with the answers.                  *)
(***************************************************************************)
Vcs == {"git", "mercurial", "darcs", "subversion", "bazaar", "fossil"}

(* _run_cmd(command, codes): the tuple of exit code and output, or the    *)
(* RuntimeError that names the command, the code and the output            *)
_run_cmd(command, codes, returncode, output) ==
    IF codes # {} /\ returncode \notin codes
    THEN Raise("RuntimeError", [text |-> "returned code", command |-> command,
                                code |-> returncode, output |-> output])
    ELSE Ret(<<returncode, output>>)

(* what a failing command prints; the output of the others is modelled   *)
(* by the repository they read                                             *)
FailureOutput == "fatal"

(* the command run in the environment of the repository: returncode is   *)
(* the code it exits with when nothing makes it fail                       *)
Exec(repo, command, codes, returncode) ==
    IF repo.fails = command
    THEN _run_cmd(command, codes, repo.code, FailureOutput)
    ELSE _run_cmd(command, codes, returncode, "")

(* _detect_vcs: the checks in their order, and the probe of each system   *)
checks_Reversed == <<"fossil", "bazaar", "subversion", "darcs", "mercurial", "git">>

checks == <<"git", "mercurial", "darcs", "subversion", "bazaar", "fossil">>

Probe(vcs) ==
    CASE vcs = "git" -> "git status"
      [] vcs = "mercurial" -> "hg status"
      [] vcs = "darcs" -> "darcs log"
      [] vcs = "subversion" -> "svn log"
      [] vcs = "bazaar" -> "bzr status"
      [] vcs = "fossil" -> "fossil status"

(* _detect_vcs(expected_vcs) where the programs of installed are found    *)
(* and the probes of succeeding exit with 0                                *)
_detect_vcs(expected_vcs, installed, succeeding) ==
    IF ~IsNone(expected_vcs)
    THEN IF Get(expected_vcs) \notin installed
         THEN Raise("RuntimeError", [text |-> "Unable to find program",
                                     vcs |-> Get(expected_vcs)])
         ELSE IF _run_cmd(Probe(Get(expected_vcs)), {},
                          IF Get(expected_vcs) \in succeeding THEN 0 ELSE 1,
                          "").value[1] # 0
         THEN Raise("RuntimeError", [text |-> "This does not appear to be a project",
                                     vcs |-> Get(expected_vcs)])
         ELSE Ret(Get(expected_vcs))
    ELSE LET found == {k \in 1..Len(checks) :
                          /\ checks[k] \in installed
                          /\ _run_cmd(Probe(checks[k]), {},
                                      IF checks[k] \in succeeding THEN 0 ELSE 1,
                                      "").value[1] = 0}
         IN IF found = {}
            THEN Raise("RuntimeError",
                       [text |-> "Unable to detect version control system."])
            ELSE Ret(checks[CHOOSE k \in found : \A j \in found : k <= j])

(* the systems whose probe exits with 0 in the directory of the           *)
(* repository                                                              *)
Succeeding(repo) == {vcs \in {repo.vcs} : repo.fails # Probe(vcs)}

IsTag(entry) == entry # <<>>
OwnRevision(repo) ==
    repo.vcs \in {"darcs", "subversion"} \/ (repo.vcs = "mercurial" /\ ~repo.local)
CommitsUpTo(history, i) == Cardinality({j \in 1..i : ~IsTag(history[j])})
(* the revisions of the repository, and the one that is checked out *)
Revisions(repo) ==
    IF OwnRevision(repo) THEN Len(repo.history)
    ELSE CommitsUpTo(repo.history, Len(repo.history))
Checkout(repo) == Revisions(repo) - repo.behind

(* the tags in creation order: the revision each one labels, and the       *)
(* revision its creation is (0 if it is none)                              *)
TagsOf(repo) ==
    LET h == repo.history
        at == {i \in 1..Len(h) : IsTag(h[i])}
        last(i) == \A j \in at : j <= i
    IN {[name |-> h[i], created |-> i,
         labels |-> IF repo.older /\ last(i) THEN 1
                    ELSE IF OwnRevision(repo) THEN i - 1 ELSE CommitsUpTo(h, i),
         own |-> IF OwnRevision(repo) THEN i ELSE 0] : i \in at}

(* sorted(...): the elements of S in the order before, a set of pairs *)
Ordered(S, before) ==
    CHOOSE q \in [1..Cardinality(S) -> S] :
        \A i, j \in 1..Cardinality(S) : i < j => <<q[i], q[j]>> \in before

Names(tags) == [i \in 1..Len(tags) |-> tags[i].name]
TagNamed(tags, name) == CHOOSE t \in tags : t.name = name

(* the id of the checked-out revision: its number in Subversion and       *)
(* Bazaar, a hash elsewhere                                                *)
CommitId(repo) ==
    IF repo.vcs \in {"subversion", "bazaar"} THEN Str(Checkout(repo))
    ELSE <<"r">> \o Str(Checkout(repo))

(* return cls("0.0.0", distance=distance, commit=commit, dirty=dirty) *)
untagged_version(distance, commit, dirty) ==
    Ret(Version(<<"0", ".", "0", ".", "0">>, None, distance, commit, dirty, None))

(* the matcher failing answered with the version of a repository without  *)
(* tags                                                                    *)
tagged_version_FallsBack(pattern, tags, latest_tag, distance, commit, dirty) ==
    LET matched == _match_version_pattern(pattern, Names(tags), latest_tag)
    IN IF Raised(matched) THEN untagged_version(0, commit, dirty)
       ELSE LET m == matched.value
                version == Version(m.base, m.stage_revision,
                                   distance[TagNamed({tags[i] : i \in 1..Len(tags)},
                                                     m.matched_tag)],
                                   commit, dirty, m.tagged_metadata)
            IN Ret([version EXCEPT !._matched_tag = Some(m.matched_tag),
                                   !._newer_unmatched_tags = Some(m.newer_tags)])

(* the end of every backend: the matcher on the ordered tags (its error   *)
(* is not caught), the distance of the matched tag, the Version            *)
tagged_version(pattern, tags, latest_tag, distance, commit, dirty) ==
    LET matched == _match_version_pattern(pattern, Names(tags), latest_tag)
    IN IF Raised(matched) THEN matched
       ELSE LET m == matched.value
                version == Version(m.base, m.stage_revision,
                                   distance[TagNamed({tags[i] : i \in 1..Len(tags)},
                                                     m.matched_tag)],
                                   commit, dirty, m.tagged_metadata)
            IN Ret([version EXCEPT !._matched_tag = Some(m.matched_tag),
                                   !._newer_unmatched_tags = Some(m.newer_tags)])

(* the command that counts the distance is run after the matcher          *)
(* returned: its error ends the call                                       *)
Counted(version, count) ==
    IF Returned(version) /\ Raised(count) THEN count ELSE version

(* _GitRefInfo: the fields git for-each-ref prints for a tag.  The date   *)
(* of a history entry is its place.  An annotated tag has the date of its *)
(* creation as tagger and creator date and the date of its commit as      *)
(* committer date; a lightweight tag has no tagger and no committer date, *)
(* and the date of its commit as creator date.                             *)
_GitRefInfo(repo, t) ==
    LET h == repo.history
        committed == CHOOSE i \in 1..Len(h) : ~IsTag(h[i]) /\ CommitsUpTo(h, i) = t.labels
    IN [ref |-> t.name,
        commit |-> t.labels,
        creatordate |-> IF repo.annotated THEN t.created ELSE committed,
        committerdate |-> IF repo.annotated THEN Some(committed) ELSE None,
        taggerdate |-> IF repo.annotated THEN Some(t.created) ELSE None]

(* _GitRefInfo.best_date *)
best_date(info) ==
    IF ~IsNone(info.taggerdate) THEN Get(info.taggerdate)
    ELSE IF ~IsNone(info.committerdate) THEN Get(info.committerdate)
    ELSE info.creatordate

(* _GitRefInfo.from_git_tag_topo_order: for each tag the place of its     *)
(* commit among the tagged commits that git log lists from HEAD backwards *)
from_git_tag_topo_order(merged) ==
    [name \in {t.name : t \in merged} |->
        Cardinality({u.labels : u \in {u \in merged :
                                          u.labels > TagNamed(merged, name).labels}})]

(* the sort key without the date *)
sort_key_OffsetOnly(info, tag_topo_lookup) == <<0 - tag_topo_lookup[info.ref], 0>>

(* _GitRefInfo.sort_key *)
sort_key(info, tag_topo_lookup) == <<0 - tag_topo_lookup[info.ref], best_date(info)>>

(* Version.from_git.  git log -n 1 exits with 128 without a commit; git   *)
(* describe tells a dirty tree, and git status is asked when it tells     *)
(* none; for-each-ref --merged HEAD lists the tags on the checked-out     *)
(* commit and its ancestors by name; sorted(..., reverse=True) puts the   *)
(* greatest key first and keeps tags with equal keys in the order listed; *)
(* rev-list --count counts the commits of HEAD, or those after the tag.    *)
from_git(repo, pattern, latest_tag) ==
    LET detect == _detect_vcs(Some("git"), repo.installed, Succeeding(repo))
        log == Exec(repo, "git log -n 1 --format=format:%h", {0, 128},
                   IF Revisions(repo) = 0 THEN 128 ELSE 0)
        describe == Exec(repo, "git describe --always --dirty", {0}, 0)
        status == Exec(repo, "git status --porcelain", {0}, 0)
        for_each_ref == Exec(repo, "git for-each-ref refs/tags/** --merged HEAD", {0}, 0)
        count == Exec(repo, "git rev-list --count HEAD", {0}, 0)
        topo == Exec(repo, "git log --simplify-by-decoration --topo-order HEAD", {0}, 0)
        distance == Exec(repo, "git rev-list --count refs/tags/{tag}..HEAD", {0}, 0)
        commit == Some(CommitId(repo))
        dirty == Some(repo.dirty)
        merged == {t \in TagsOf(repo) : t.labels <= Checkout(repo)}
        tag_topo_lookup == from_git_tag_topo_order(merged)
        key(t) == sort_key(_GitRefInfo(repo, t), tag_topo_lookup)
        before == {p \in merged \X merged :
                      \/ TupleLess(key(p[2]), key(p[1]))
                      \/ key(p[1]) = key(p[2]) /\ StrLess(p[1].name, p[2].name)}
        tags == Ordered(merged, before)
    IN IF Raised(detect) THEN detect
       ELSE IF Raised(log) THEN log
       ELSE IF log.value[1] = 128
       THEN Ret(Version(<<"0", ".", "0", ".", "0">>, None, 0, None, Some(TRUE), None))
       ELSE IF Raised(describe) THEN describe
       ELSE IF ~repo.dirty /\ Raised(status) THEN status
       ELSE IF Raised(for_each_ref) THEN for_each_ref
       ELSE IF merged = {}
       THEN untagged_version(IF Raised(count) THEN 0 ELSE ToInt(Str(Checkout(repo))),
                             commit, dirty)
       ELSE IF Raised(topo) THEN topo
       ELSE Counted(tagged_version(pattern, tags, latest_tag,
                                   [t \in merged |-> ToInt(Str(Checkout(repo) - t.labels))],
                                   commit, dirty),
                    distance)

(* Version.from_mercurial.  hg id is all zeros without a commit; hg log   *)
(* -r "sort(tag() and ancestors(commit), -rev)" lists the tagged          *)
(* revisions up to the checked-out one, newest first, the tags of one     *)
(* revision by name; hg id --num --rev tip is the number of the newest    *)
(* revision of the repository, from 0, and -1 without any; hg log -r      *)
(* "tag::commit - tag" prints a dot for each revision after the tagged    *)
(* one up to the checked-out one.                                          *)
from_mercurial(repo, pattern, latest_tag) ==
    LET detect == _detect_vcs(Some("mercurial"), repo.installed, Succeeding(repo))
        summary == Exec(repo, "hg summary", {0}, 0)
        id == Exec(repo, "hg id --template {id|short}", {0}, 0)
        log == Exec(repo, "hg log -r sort(tag(), -rev) --template {join(tags, ':')}", {0}, 0)
        num == Exec(repo, "hg id --num --rev tip", {0}, 0)
        between == Exec(repo, "hg log -r {tag}::{commit} - {tag} --template .", {0}, 0)
        dirty == Some(repo.dirty)
        commit == IF Revisions(repo) = 0 THEN None ELSE Some(CommitId(repo))
        listed == {t \in TagsOf(repo) : t.labels <= Checkout(repo)}
        before == {p \in listed \X listed :
                          \/ p[1].labels > p[2].labels
                          \/ p[1].labels = p[2].labels /\ StrLess(p[1].name, p[2].name)}
        tags == Ordered(listed, before)
        tip == Revisions(repo) - 1
    IN IF Raised(detect) THEN detect
       ELSE IF Raised(summary) THEN summary
       ELSE IF Raised(id) THEN id
       ELSE IF Raised(log) THEN log
       ELSE IF listed = {}
       THEN untagged_version(IF Raised(num) THEN 0 ELSE tip + 1, commit, dirty)
       ELSE Counted(tagged_version(pattern, tags, latest_tag,
                                   [t \in listed |->
                                       LET dots == Checkout(repo) - t.labels
                                       IN IF dots - 1 > 0 THEN dots - 1 ELSE 0],
                                   commit, dirty),
                    between)

(* Version.from_darcs.  darcs status exits with 1 when nothing changed;   *)
(* darcs log --last 1 is empty without a patch; darcs show tags lists the *)
(* tags, newest first; darcs log --count counts the patches, with         *)
(* --from-tag from the tag on, the tag included.                           *)
from_darcs(repo, pattern, latest_tag) ==
    LET detect == _detect_vcs(Some("darcs"), repo.installed, Succeeding(repo))
        status == Exec(repo, "darcs status", {0, 1}, IF repo.dirty THEN 0 ELSE 1)
        last == Exec(repo, "darcs log --last 1", {0}, 0)
        show == Exec(repo, "darcs show tags", {0}, 0)
        count == Exec(repo, "darcs log --count", {0}, 0)
        from_tag == Exec(repo, "darcs log --from-tag {tag} --count", {0}, 0)
        dirty == Some(repo.dirty)
        commit == IF Revisions(repo) = 0 THEN None ELSE Some(CommitId(repo))
        before == {p \in TagsOf(repo) \X TagsOf(repo) : p[1].created > p[2].created}
        tags == Ordered(TagsOf(repo), before)
    IN IF Raised(detect) THEN detect
       ELSE IF Raised(status) THEN status
       ELSE IF Raised(last) THEN last
       ELSE IF Raised(show) THEN show
       ELSE IF TagsOf(repo) = {}
       THEN untagged_version(IF Raised(count) THEN 0 ELSE ToInt(Str(Revisions(repo))),
                             commit, dirty)
       ELSE Counted(tagged_version(pattern, tags, latest_tag,
                                   [t \in TagsOf(repo) |->
                                       ToInt(Str(Revisions(repo) - t.own + 1)) - 1],
                                   commit, dirty),
                    from_tag)

(* the key of a tag by the revision that created it first *)
tags_to_sources_revs_RevFirst(t) == <<t.own, t.labels>>

(* tags_to_sources_revs[tag]: the revision the tag directory was copied   *)
(* from and the revision that created it                                   *)
tags_to_sources_revs(t) == <<t.labels, t.own>>

(* Version.from_subversion.  svn info gives the revision of the working   *)
(* copy; svn ls -v -r commit lists the directories of tag_dir that exist  *)
(* at that revision with the revision that created them; svn log          *)
(* --stop-on-copy names the revision each was copied from.                 *)
from_subversion(repo, pattern, latest_tag, tag_dir) ==
    LET detect == _detect_vcs(Some("subversion"), repo.installed, Succeeding(repo))
        status == Exec(repo, "svn status", {0}, 0)
        root == Exec(repo, "svn info --show-item repos-root-url", {0}, 0)
        revision == Exec(repo, "svn info --show-item revision", {0}, 0)
        ls == Exec(repo, "svn ls -v -r {commit} {url}/{tag_dir}", {0}, 0)
        log == Exec(repo, "svn log -v {url}/{tag_dir}/{tag} --stop-on-copy", {0}, 0)
        dirty == Some(repo.dirty)
        commit == IF Checkout(repo) = 0 THEN None ELSE Some(CommitId(repo))
        tags_to_revs == IF tag_dir = repo.tags_in
                        THEN {t \in TagsOf(repo) : t.own <= Checkout(repo)}
                        ELSE {}
        before == {p \in tags_to_revs \X tags_to_revs :
                      TupleLess(tags_to_sources_revs(p[2]), tags_to_sources_revs(p[1]))}
        tags == Ordered(tags_to_revs, before)
    IN IF Raised(detect) THEN detect
       ELSE IF Raised(status) THEN status
       ELSE IF Raised(root) THEN root
       ELSE IF Raised(revision) THEN revision
       ELSE IF IsNone(commit) THEN untagged_version(0, commit, dirty)
       ELSE IF Raised(ls) THEN ls
       ELSE IF tags_to_revs = {}
       THEN untagged_version(ToInt(Get(commit)), commit, dirty)
       ELSE IF Raised(log) THEN log
       ELSE tagged_version(pattern, tags, latest_tag,
                           [t \in tags_to_revs |->
                               ToInt(Get(commit)) - 1 - tags_to_sources_revs(t)[1]],
                           commit, dirty)

(* Version.from_bazaar.  bzr log --limit 1 --line starts with the number  *)
(* of the newest revision and is empty without one; bzr tags lists each   *)
(* tag with the number of its revision.                                    *)
from_bazaar(repo, pattern, latest_tag) ==
    LET detect == _detect_vcs(Some("bazaar"), repo.installed, Succeeding(repo))
        status == Exec(repo, "bzr status", {0}, 0)
        log == Exec(repo, "bzr log --limit 1 --line", {0}, 0)
        bzr_tags == Exec(repo, "bzr tags", {0}, 0)
        dirty == Some(repo.dirty)
        commit == IF Revisions(repo) = 0 THEN None ELSE Some(CommitId(repo))
        tags_to_revs == TagsOf(repo)
        before == {p \in tags_to_revs \X tags_to_revs :
                          \/ p[1].labels > p[2].labels
                          \/ p[1].labels = p[2].labels /\ StrLess(p[2].name, p[1].name)}
        tags == Ordered(tags_to_revs, before)
    IN IF Raised(detect) THEN detect
       ELSE IF Raised(status) THEN status
       ELSE IF Raised(log) THEN log
       ELSE IF Raised(bzr_tags) THEN bzr_tags
       ELSE IF tags_to_revs = {} \/ IsNone(commit)
       THEN untagged_version(IF IsNone(commit) THEN 0 ELSE ToInt(Get(commit)),
                             commit, dirty)
       ELSE tagged_version(pattern, tags, latest_tag,
                           [t \in tags_to_revs |-> ToInt(Get(commit)) - t.labels],
                           commit, dirty)

(* Version.from_fossil.  The event table has a check-in for the creation  *)
(* of the repository and one for each commit; the query gives the tags on *)
(* the checked-out check-in and its ancestors with their generation, 1    *)
(* for the checked-out one, newest check-in and newest tag first.          *)
from_fossil(repo, pattern, latest_tag) ==
    LET detect == _detect_vcs(Some("fossil"), repo.installed, Succeeding(repo))
        changes == Exec(repo, "fossil changes --differ", {0}, 0)
        hash == Exec(repo, "fossil sql SELECT value FROM vvar", {0}, 0)
        count == Exec(repo, "fossil sql SELECT count() FROM event", {0}, 0)
        query == Exec(repo, "fossil sql {query}", {0}, 0)
        dirty == Some(repo.dirty)
        commit == Some(CommitId(repo))
        total_commits == ToInt(Str(Revisions(repo) + 1)) - 1
        listed == {t \in TagsOf(repo) : t.labels <= Checkout(repo)}
        before == {p \in listed \X listed : p[1].created > p[2].created}
        tags_to_distance == Ordered(listed, before)
    IN IF Raised(detect) THEN detect
       ELSE IF Raised(changes) THEN changes
       ELSE IF Raised(hash) THEN hash
       ELSE IF Raised(count) THEN count
       ELSE IF total_commits <= 0 THEN untagged_version(0, commit, dirty)
       ELSE IF Raised(query) THEN query
       ELSE IF listed = {}
       THEN untagged_version(total_commits, commit, dirty)
       ELSE tagged_version(pattern, tags_to_distance, latest_tag,
                           [t \in listed |-> ToInt(Str(Checkout(repo) - t.labels + 1)) - 1],
                           commit, dirty)

(* the external commands of each backend, the probe first *)
CallSites(vcs) ==
    CASE vcs = "git" ->
            {"git status", "git log -n 1 --format=format:%h",
             "git describe --always --dirty", "git status --porcelain",
             "git for-each-ref refs/tags/** --merged HEAD", "git rev-list --count HEAD",
             "git log --simplify-by-decoration --topo-order HEAD",
             "git rev-list --count refs/tags/{tag}..HEAD"}
      [] vcs = "mercurial" ->
            {"hg status", "hg summary", "hg id --template {id|short}",
             "hg log -r sort(tag(), -rev) --template {join(tags, ':')}",
             "hg id --num --rev tip", "hg log -r {tag}::{commit} - {tag} --template ."}
      [] vcs = "darcs" ->
            {"darcs log", "darcs status", "darcs log --last 1", "darcs show tags",
             "darcs log --count", "darcs log --from-tag {tag} --count"}
      [] vcs = "subversion" ->
            {"svn log", "svn status", "svn info --show-item repos-root-url",
             "svn info --show-item revision", "svn ls -v -r {commit} {url}/{tag_dir}",
             "svn log -v {url}/{tag_dir}/{tag} --stop-on-copy"}
      [] vcs = "bazaar" ->
            {"bzr status", "bzr log --limit 1 --line", "bzr tags"}
      [] vcs = "fossil" ->
            {"fossil status", "fossil changes --differ",
             "fossil sql SELECT value FROM vvar", "fossil sql SELECT count() FROM event",
             "fossil sql {query}"}

(* Version._do_vcs_callback: tag_dir is handed on to Subversion only, and *)
(* Version.from_any_vcs, which Vcs.Any is mapped to, is called without it  *)
RECURSIVE _do_vcs_callback(_, _, _, _, _)

(* Version.from_any_vcs *)
from_any_vcs(repo, pattern, latest_tag, tag_dir) ==
    LET vcs == _detect_vcs(None, repo.installed, Succeeding(repo))
    IN IF Raised(vcs) THEN vcs
       ELSE _do_vcs_callback(vcs.value, repo, pattern, latest_tag, tag_dir)

_do_vcs_callback(vcs, repo, pattern, latest_tag, tag_dir) ==
    CASE vcs = "any" -> from_any_vcs(repo, pattern, latest_tag, "tags")
      [] vcs = "git" -> from_git(repo, pattern, latest_tag)
      [] vcs = "mercurial" -> from_mercurial(repo, pattern, latest_tag)
      [] vcs = "darcs" -> from_darcs(repo, pattern, latest_tag)
      [] vcs = "subversion" -> from_subversion(repo, pattern, latest_tag, tag_dir)
      [] vcs = "bazaar" -> from_bazaar(repo, pattern, latest_tag)
      [] vcs = "fossil" -> from_fossil(repo, pattern, latest_tag)

(* Version.from_vcs *)
from_vcs(vcs, repo, pattern, latest_tag, tag_dir) ==
    _do_vcs_callback(vcs, repo, pattern, latest_tag, tag_dir)

(***************************************************************************)
(* get_version.  importlib_metadata.version(name) gives the version of an  *)
(* installed package and raises PackageNotFoundError for any other name;   *)
(* a callback is None, or a callable that returns None or a Version; a     *)
(* Version is truthy.                                                      *)
(***************************************************************************)
InstalledPackages == {<<"d", "u", "n", "a", "m", "a", "i">>}
InstalledVersion == <<"1", ".", "2", ".", "3">>

(* the fall through to `return fallback` *)
ReturnsFallback(name, first_choice, third_choice) ==
    /\ IsNone(first_choice) \/ IsNone(Get(first_choice))
    /\ name \notin InstalledPackages
    /\ IsNone(third_choice) \/ IsNone(Get(third_choice))

get_version(name, first_choice, third_choice, fallback) ==
    IF ~IsNone(first_choice) /\ ~IsNone(Get(first_choice))
    THEN Get(Get(first_choice))
    ELSE IF name \in InstalledPackages
    THEN Version(InstalledVersion, None, 0, None, None, None)
    ELSE IF ~IsNone(third_choice) /\ ~IsNone(Get(third_choice))
    THEN Get(Get(third_choice))
    ELSE fallback

(***************************************************************************)
(* The explored inputs.                                                    *)
(***************************************************************************)
OptBool == {None, Some(TRUE), Some(FALSE)}
OptStyle == {None} \cup {Some(st) : st \in Style}

Bases == {<<"1">>, <<"0", ".", "1", ".", "0">>}
Stages == {None,
           Some(<<<<"a">>, None>>),
           Some(<<<<"a">>, Some(2)>>),
           Some(<<<<"a", "l", "p", "h", "a">>, Some(2)>>),
           Some(<<<<"p", "o", "s", "t">>, Some(1)>>)}
Distances == 0..MaxDistance
Commits == {None, Some(<<"a", "b", "c">>)}
TaggedMetadatas == {None, Some(<<"l", "i", "n", "u", "x">>)}

Versions ==
    {Version(b, st, d, c, dt, tm) :
        b \in Bases, st \in Stages, d \in Distances, c \in Commits,
        dt \in OptBool, tm \in TaggedMetadatas}

(* "v{base}", "{base}+{distance}.{dirty}" and the template of the tests,   *)
(* "{base},{stage},{revision},{distance},{commit},{dirty}"                 *)
TemplateOfTests ==
    <<"{base}", ",", "{stage}", ",", "{revision}", ",", "{distance}", ",",
      "{commit}", ",", "{dirty}">>
Formats == {<<"v", "{base}">>,
            <<"{base}", "+", "{distance}", ".", "{dirty}">>,
            TemplateOfTests}

MetadataLists == {None, Some(<<>>), Some(<<<<"a", "b", "c">>>>),
                  Some(<<<<"a", "b", "c">>, <<"d", "i", "r", "t", "y">>>>)}
PreLists == {None, Some(<<<<"a">>, <<"2">>>>), Some(<<<<"p", "o", "s", "t">>, <<"1">>>>),
             Some(<<<<"0", "1">>>>)}

(* (?P<base>\d\.\d\.\d) and (\d\.\d\.\d), the custom patterns of the tests *)
RThreeDigits == RSeq(<<RDigit, RChr("."), RDigit, RChr("."), RDigit>>)
PatternBaseOnly == RGroup("base", RThreeDigits)
PatternNoBase == RThreeDigits
(* ^v(?P<base>\d+)?$: a pattern whose base group can stay unset *)
PatternOptionalBase ==
    RSeq(<<RBol, RChr("v"), ROpt(RGroup("base", RPlus(RDigit))), REol>>)
(* ^v(?P<base>\d+)(?P<stage>[a-z]+)?$: base and stage, no other group *)
PatternStageOnly ==
    RSeq(<<RBol, RChr("v"), RGroup("base", RPlus(RDigit)),
           ROpt(RGroup("stage", RPlus(RSet(Lower)))), REol>>)

(* ^v(?P<base>\d{0,})$: a pattern whose base group can match the empty    *)
(* text                                                                    *)
PatternEmptyBase ==
    RSeq(<<RBol, RChr("v"), RGroup("base", RStar(RDigit)), REol>>)
(* ^v(?P<base>\d+)(?P<stage>[a-z]+)?\d*\+(?P<tagged_metadata>.+)$: stage   *)
(* and tagged_metadata, no revision group                                  *)
PatternStageMetadata ==
    RSeq(<<RBol, RChr("v"), RGroup("base", RPlus(RDigit)),
           ROpt(RGroup("stage", RPlus(RSet(Lower)))), RStar(RDigit), RChr("+"),
           RGroup("tagged_metadata", RPlus(RAny)), REol>>)

PatternNames == {"_VERSION_PATTERN", "PatternBaseOnly", "PatternNoBase",
                 "PatternOptionalBase", "PatternStageOnly", "PatternEmptyBase",
                 "PatternStageMetadata"}

(* the pattern an argument names *)
Regex(name) ==
    CASE name = "_VERSION_PATTERN" -> _VERSION_PATTERN
      [] name = "PatternBaseOnly" -> PatternBaseOnly
      [] name = "PatternNoBase" -> PatternNoBase
      [] name = "PatternOptionalBase" -> PatternOptionalBase
      [] name = "PatternStageOnly" -> PatternStageOnly
      [] name = "PatternEmptyBase" -> PatternEmptyBase
      [] name = "PatternStageMetadata" -> PatternStageMetadata

(* candidate tags: "x", "v", "v1", "v2a1+m", "0.1.0" *)
Tags == {<<"x">>, <<"v">>, <<"v", "1">>, <<"v", "2", "a", "1", "+", "m">>,
         <<"0", ".", "1", ".", "0">>}

(* tag names: "v1", "v2" and "other", which the default pattern refuses *)
TagNames == {<<"v", "1">>, <<"v", "2">>, <<"o", "t", "h", "e", "r">>}

RECURSIVE SeqsUpTo(_, _)
SeqsUpTo(S, n) ==
    IF n = 0 THEN {<<>>}
    ELSE LET shorter == SeqsUpTo(S, n - 1)
         IN shorter \cup {Append(q, x) : q \in shorter, x \in S}

(* histories of up to MaxHistory entries: the first one is a commit and  *)
(* no tag name is created twice                                            *)
Histories ==
    {h \in SeqsUpTo(TagNames \cup {<<>>}, MaxHistory) :
        /\ Len(h) > 0 => ~IsTag(h[1])
        /\ \A i, j \in 1..Len(h) : (i < j /\ IsTag(h[i])) => h[i] # h[j]}

(* the directories a Subversion repository keeps tags in, and the codes   *)
(* a failing command exits with                                            *)
TagDirs == {"tags", "releases"}
FailCodes == {1, 128}

(* the repositories: local tags are told apart in Mercurial only,         *)
(* annotated tags in Git only; an older revision is checked out in Git,   *)
(* Mercurial and Subversion only; the last tag is put on the first        *)
(* revision, when that is not the newest one, in Git and Subversion only. *)
(* The tags are in the directory tags, the program of the system is       *)
(* found and no command fails.                                             *)
Repositories ==
    {repo \in [vcs : Vcs, history : Histories, behind : 0..MaxBehind,
               dirty : BOOLEAN, local : BOOLEAN, annotated : BOOLEAN,
               older : BOOLEAN, tags_in : {"tags"}, installed : {{vcs} : vcs \in Vcs},
               fails : {""}, code : {0}] :
        /\ repo.installed = {repo.vcs}
        /\ repo.local => repo.vcs = "mercurial"
        /\ repo.annotated => repo.vcs = "git"
        /\ repo.older =>
              /\ repo.vcs \in {"git", "subversion"}
              /\ \E t \in TagsOf([repo EXCEPT !.older = FALSE]) :
                    /\ t.labels > 1
                    /\ \A u \in TagsOf(repo) : u.created <= t.created
        /\ repo.behind > 0 =>
              (repo.vcs \in {"git", "mercurial", "subversion"}
               /\ repo.behind < Revisions(repo))}

(* plain repositories of short history *)
PlainRepositories(n) ==
    {repo \in Repositories :
        /\ Len(repo.history) <= n /\ repo.behind = 0
        /\ ~repo.local /\ ~repo.annotated /\ ~repo.older}

(* repositories in an environment where one command of the backend exits *)
(* with one of the codes                                                   *)
FailingRepositories ==
    UNION {{[repo EXCEPT !.fails = command, !.code = code] :
               command \in CallSites(repo.vcs), code \in FailCodes} :
           repo \in PlainRepositories(MaxFailingHistory)}

(* clean repositories with the tags in either directory, where the       *)
(* program of every system, of this system only, or of every other system *)
(* is found                                                                *)
DetectedRepositories ==
    {[repo EXCEPT !.tags_in = tags_in, !.installed = installed] :
        repo \in {r \in PlainRepositories(MaxDetectedHistory) : ~r.dirty},
        tags_in \in TagDirs, installed \in {Vcs, {"subversion"}, Vcs \ {"subversion"}}}

(* the package names asked for, the Version a callback returns or the     *)
(* caller gives as fallback, and the callbacks                             *)
PackageNames == InstalledPackages \cup {<<"n", "o", "n", "e">>}
ChosenVersion == Version(<<"1">>, None, 0, None, None, None)
Choices == {None, Some(None), Some(Some(ChosenVersion))}

(* the Versions compared: "0.2.0" and "0.10.0" order differently as       *)
(* strings and as release tuples                                           *)
OrderBases == {<<"0", ".", "2", ".", "0">>, <<"0", ".", "1", "0", ".", "0">>}
OrderStages == {None, Some(<<<<"a">>, None>>), Some(<<<<"a">>, Some(2)>>)}
OrderVersions ==
    {Version(b, st, d, c, dt, None) :
        b \in OrderBases, st \in OrderStages, d \in Distances, c \in Commits,
        dt \in OptBool}
(* the same Version as a backend leaves it: tagged metadata, matched tag  *)
(* and newer unmatched tags set                                            *)
Derived(v) == [v EXCEPT !.tagged_metadata = Some(<<"l", "i", "n", "u", "x">>),
                        !._matched_tag = Some(<<"v", "1">>),
                        !._newer_unmatched_tags = Some(<<<<"x">>>>)]

Init ==
    /\ op = "idle" /\ args = <<>> /\ result = <<>>
    /\ __defaults__ = Version(<<"0", ".", "0", ".", "0">>, None, 0, None, None, None)

(* a call of Version.serialize without a format *)
Serialize ==
    /\ op = "idle"
    /\ UNCHANGED __defaults__
    /\ \E self \in Versions, metadata \in OptBool, dirty \in BOOLEAN,
          style \in OptStyle, bump \in BOOLEAN, tagged_metadata \in BOOLEAN :
         /\ op' = "serialize"
         /\ args' = [self |-> self, metadata |-> metadata, dirty |-> dirty,
                     format |-> None, style |-> style, bump |-> bump,
                     tagged_metadata |-> tagged_metadata]
         /\ result' = serialize(self, metadata, dirty, None, style, bump, tagged_metadata)

(* a call of Version.serialize with a format (which returns before the    *)
(* metadata, dirty and tagged_metadata arguments are read)                 *)
SerializeFormat ==
    /\ op = "idle"
    /\ UNCHANGED __defaults__
    /\ \E self \in Versions, format \in Formats, style \in OptStyle, bump \in BOOLEAN :
         /\ op' = "serialize"
         /\ args' = [self |-> self, metadata |-> None, dirty |-> FALSE,
                     format |-> Some(format), style |-> style, bump |-> bump,
                     tagged_metadata |-> FALSE]
         /\ result' = serialize(self, None, FALSE, Some(format), style, bump, FALSE)

SerializePep440 ==
    /\ op = "idle"
    /\ UNCHANGED __defaults__
    /\ \E base \in Bases, stage \in {None, Some(<<"a">>), Some(<<"a", "l", "p", "h", "a">>)},
          revision \in {None, Some(2)}, post \in {None, Some(1)}, dev \in {None, Some(0)},
          epoch \in {None, Some(1)}, metadata \in MetadataLists :
         /\ op' = "serialize_pep440"
         /\ args' = [base |-> base, stage |-> stage, revision |-> revision, post |-> post,
                     dev |-> dev, epoch |-> epoch, metadata |-> metadata]
         /\ result' = serialize_pep440(base, stage, revision, post, dev, epoch, metadata)

SerializeSemver ==
    /\ op = "idle"
    /\ UNCHANGED __defaults__
    /\ \E base \in Bases, pre \in PreLists, metadata \in MetadataLists :
         /\ op' = "serialize_semver"
         /\ args' = [base |-> base, pre |-> pre, metadata |-> metadata]
         /\ result' = serialize_semver(base, pre, metadata)

SerializePvp ==
    /\ op = "idle"
    /\ UNCHANGED __defaults__
    /\ \E base \in Bases, metadata \in MetadataLists \cup {Some(<<<<"a", "_">>>>)} :
         /\ op' = "serialize_pvp"
         /\ args' = [base |-> base, metadata |-> metadata]
         /\ result' = serialize_pvp(base, metadata)

(* a call of formatters.format_pieces_as_pep440 *)
FormatPieces ==
    /\ op = "idle"
    /\ UNCHANGED __defaults__
    /\ \E base \in Bases,
          stage \in {None, Some(<<"a">>), Some(<<"A", "l", "p", "h", "a">>),
                     Some(<<"p", "r", "e">>)},
          revision \in {None, Some(2)}, post \in {None, Some(1)}, dev \in {None, Some(0)},
          epoch \in {None, Some(1)}, metadata \in MetadataLists :
         /\ op' = "format_pieces_as_pep440"
         /\ args' = [base |-> base, stage |-> stage, revision |-> revision, post |-> post,
                     dev |-> dev, epoch |-> epoch, metadata |-> metadata]
         /\ result' = format_pieces_as_pep440(base, stage, revision, post, dev, epoch,
                                              metadata)

(* the version strings checked: a core, an optional pre-release part and *)
(* an optional build part                                                  *)
Cores == {<<"0", ".", "1", ".", "0">>, <<"0", ".", "0", "1", ".", "0">>, <<"1">>,
          <<"0", ".", "1">>}
PreReleases == {<<>>, <<"-", "a">>, <<"-", "a", ".", "1">>, <<"-", "0", "1">>,
                <<"-", "a", "_", "b">>, <<"-">>, <<"-", "a", ".", ".", "b">>,
                <<"a", "1">>}
Builds == {<<>>, <<"+", "a", "b", "c">>, <<"+", "a", "b", "c", "_", "d", "i", "r", "t", "y">>,
           <<"+", "0", "1">>, <<"+", "a", ".", "b", "-", "c">>, <<"+">>}
CheckedVersions == {c \o p \o b : c \in Cores, p \in PreReleases, b \in Builds}

(* a call of check_version *)
CheckVersion ==
    /\ op = "idle"
    /\ UNCHANGED __defaults__
    /\ \E version \in CheckedVersions, style \in Style :
         /\ op' = "check_version"
         /\ args' = [version |-> version, style |-> style]
         /\ result' = IF check_version(version, style) THEN Ret(None)
                       ELSE Raise("ValueError", NotConform)

(* the bases bumped: up to MaxComponents components, each 0, 1 or 9 *)
BumpBases ==
    {Join(<<".">>, [k \in 1..Len(q) |-> Str(q[k])]) :
        q \in SeqsUpTo({0, 1, 9}, MaxComponents) \ {<<>>}}
BumpIndices == (0 - MaxComponents - 1)..(MaxComponents + 1)

(* a call of bump_version *)
BumpVersion ==
    /\ op = "idle"
    /\ UNCHANGED __defaults__
    /\ \E base \in BumpBases, index \in BumpIndices :
         /\ op' = "bump_version"
         /\ args' = [base |-> base, index |-> index]
         /\ result' = bump_version(base, index)

(* a call of Version.from_vcs in a repository *)
Derive ==
    /\ op = "idle"
    /\ UNCHANGED __defaults__
    /\ \E repo \in Repositories, pattern \in {"_VERSION_PATTERN", "PatternOptionalBase"},
          latest_tag \in BOOLEAN :
         /\ op' = "from_vcs"
         /\ args' = [repo |-> repo, pattern |-> pattern, latest_tag |-> latest_tag]
         /\ result' = from_vcs(repo.vcs, repo, Regex(pattern), latest_tag, "tags")

(* a derivation in an environment where one command of the backend fails *)
DeriveFailing ==
    /\ op = "idle"
    /\ UNCHANGED __defaults__
    /\ \E repo \in FailingRepositories :
         /\ op' = "from_vcs (a command fails)"
         /\ args' = [repo |-> repo, pattern |-> "_VERSION_PATTERN", latest_tag |-> FALSE]
         /\ result' = from_vcs(repo.vcs, repo, _VERSION_PATTERN, FALSE, "tags")

(* Version.from_vcs with the system given or left to be detected, and    *)
(* with a tag directory                                                    *)
DeriveAny ==
    /\ op = "idle"
    /\ UNCHANGED __defaults__
    /\ \E repo \in DetectedRepositories, any \in BOOLEAN, tag_dir \in TagDirs :
         LET vcs == IF any THEN "any" ELSE repo.vcs
         IN /\ op' = "from_vcs (tag_dir)"
            /\ args' = [vcs |-> vcs, repo |-> repo, pattern |-> "_VERSION_PATTERN",
                        latest_tag |-> FALSE, tag_dir |-> tag_dir]
            /\ result' = from_vcs(vcs, repo, _VERSION_PATTERN, FALSE, tag_dir)

(* _detect_vcs with and without an expected system, where any programs   *)
(* are found and any probes succeed                                        *)
Detect ==
    /\ op = "idle"
    /\ UNCHANGED __defaults__
    /\ \E expected_vcs \in {None} \cup {Some(vcs) : vcs \in Vcs},
          installed \in SUBSET Vcs, succeeding \in SUBSET Vcs :
         /\ op' = "_detect_vcs"
         /\ args' = [expected_vcs |-> expected_vcs, installed |-> installed,
                     succeeding |-> succeeding]
         /\ result' = _detect_vcs(expected_vcs, installed, succeeding)

(* a call of _match_version_pattern *)
Match ==
    /\ op = "idle"
    /\ UNCHANGED __defaults__
    /\ \E pattern \in PatternNames, sources \in SeqsUpTo(Tags, MaxSources),
          latest_source \in BOOLEAN :
         /\ op' = "match"
         /\ args' = [pattern |-> pattern, sources |-> sources,
                     latest_source |-> latest_source]
         /\ result' = _match_version_pattern(Regex(pattern), sources, latest_source)

(* a comparison of two Versions with each of the six operators *)
Compare ==
    /\ op = "idle"
    /\ UNCHANGED __defaults__
    /\ \E a \in OrderVersions, b \in OrderVersions \cup {Derived(v) : v \in OrderVersions} :
         /\ op' = "compare"
         /\ args' = [a |-> a, b |-> b]
         /\ result' = [eq |-> __eq__(a, b), ne |-> __ne__(a, b),
                       lt |-> __lt__(a, b), gt |-> __gt__(a, b),
                       le |-> __le__(a, b), ge |-> __ge__(a, b)]

(* Version.parse of the default serialization of a Version *)
RoundTrip ==
    /\ op = "idle"
    /\ UNCHANGED __defaults__
    /\ \E self \in Versions :
         LET text == serialize(self, None, FALSE, None, None, FALSE, FALSE)
         IN /\ op' = "roundtrip"
            /\ args' = [self |-> self,
                        text |-> IF Returned(text) THEN Some(text.value) ELSE None]
            /\ result' = IF Returned(text) THEN Ret(parse(text.value)) ELSE text

(* get_version of an installed or a missing package, with and without    *)
(* callbacks and an explicit fallback; without one the parameter is the   *)
(* object of the default                                                   *)
GetVersion ==
    /\ op = "idle"
    /\ \E name \in PackageNames, first_choice \in Choices, third_choice \in Choices,
          given \in {None, Some(ChosenVersion)} :
         /\ op' = "get_version"
         /\ args' = [name |-> name, first_choice |-> first_choice,
                     third_choice |-> third_choice, fallback |-> given]
         /\ result' = Ret(get_version(name, first_choice, third_choice,
                                      IF IsNone(given) THEN __defaults__ ELSE Get(given)))
    /\ UNCHANGED __defaults__

(* the caller assigns to attributes of the Version it was returned: the   *)
(* object of the default is changed when that is the one returned          *)
Mutate ==
    /\ op = "get_version"
    /\ \E distance \in Distances, dirty \in OptBool :
         LET version == [result.value EXCEPT !.distance = distance, !.dirty = dirty]
         IN /\ op' = "mutate"
            /\ args' = [distance |-> distance, dirty |-> dirty]
            /\ result' = Ret(version)
            /\ __defaults__' =
                   IF ReturnsFallback(args.name, args.first_choice, args.third_choice)
                      /\ IsNone(args.fallback)
                   THEN version ELSE __defaults__

(* the caller takes the result; the next call starts afresh *)
Return ==
    /\ op # "idle" /\ op' = "idle" /\ args' = <<>> /\ result' = <<>>
    /\ UNCHANGED __defaults__

Next ==
    \/ Serialize
    \/ SerializeFormat
    \/ SerializePep440
    \/ SerializeSemver
    \/ SerializePvp
    \/ FormatPieces
    \/ CheckVersion
    \/ BumpVersion
    \/ Derive
    \/ DeriveFailing
    \/ DeriveAny
    \/ Detect
    \/ Match
    \/ Compare
    \/ RoundTrip
    \/ GetVersion
    \/ Mutate
    \/ Return

Spec == Init /\ [][Next]_vars

NextSerialize ==
    \/ Serialize
    \/ SerializeFormat
    \/ SerializePep440
    \/ SerializeSemver
    \/ SerializePvp
    \/ FormatPieces
    \/ Return

SpecSerialize == Init /\ [][NextSerialize]_vars

NextCheck ==
    \/ CheckVersion
    \/ Return

SpecCheck == Init /\ [][NextCheck]_vars

NextBump ==
    \/ BumpVersion
    \/ Return

SpecBump == Init /\ [][NextBump]_vars

NextDerive ==
    \/ Derive
    \/ Return

SpecDerive == Init /\ [][NextDerive]_vars

NextFail ==
    \/ DeriveFailing
    \/ Return

SpecFail == Init /\ [][NextFail]_vars

NextAny ==
    \/ DeriveAny
    \/ Return

SpecAny == Init /\ [][NextAny]_vars

NextDetect ==
    \/ Detect
    \/ Return

SpecDetect == Init /\ [][NextDetect]_vars

NextMatch ==
    \/ Match
    \/ Return

SpecMatch == Init /\ [][NextMatch]_vars

NextOrder ==
    \/ Compare
    \/ Return

SpecOrder == Init /\ [][NextOrder]_vars

NextParse ==
    \/ RoundTrip
    \/ Return

SpecParse == Init /\ [][NextParse]_vars

NextGet ==
    \/ GetVersion
    \/ Mutate
    \/ Return

SpecGet == Init /\ [][NextGet]_vars

(***************************************************************************)
(* Properties of _match_version_pattern.                                   *)
(***************************************************************************)
Matches(pattern, source) == ~IsNone(re_search(pattern, source))

(* the candidate matches and its base group took part in the match *)
YieldsBase(pattern, source) ==
    /\ HasGroup(pattern, "base")
    /\ Matches(pattern, source)
    /\ ~IsNone(Get(re_search(pattern, source)).base)

(* the place of the first candidate that yields a base, 0 if there is none *)
FirstYield(pattern, sources) ==
    IF \E k \in 1..Len(sources) : YieldsBase(pattern, sources[k])
    THEN CHOOSE k \in 1..Len(sources) :
            /\ YieldsBase(pattern, sources[k])
            /\ \A j \in 1..(k - 1) : ~YieldsBase(pattern, sources[j])
    ELSE 0

RaisedWith(r, exc, text) == Raised(r) /\ r.exc = exc /\ r.msg.text = text

(* C3: with latest_source = false and a pattern that defines base, the    *)
(* first candidate in scan order that yields a base is accepted and       *)
(* newer_tags is exactly the candidates before it, in scan order; if no   *)
(* candidate yields a base the call fails with the "did not match any     *)
(* tags" ValueError.                                                       *)
C3_NewerTagsAreAllEarlierCandidates ==
    (op = "match" /\ ~args.latest_source /\ HasGroup(Regex(args.pattern), "base")) =>
        LET k == FirstYield(Regex(args.pattern), args.sources)
        IN IF k = 0
           THEN RaisedWith(result, "ValueError", NoTags)
           ELSE /\ Returned(result)
                /\ result.value.matched_tag = args.sources[k]
                /\ result.value.newer_tags = SubSeq(args.sources, 1, k - 1)

(* C4: with latest_source = true, a first candidate and a pattern that    *)
(* defines base, only the first candidate is tested: if it does not match *)
(* or yields no base the call fails with the "did not match the latest    *)
(* tag" ValueError naming the pattern and that candidate, whatever the    *)
(* later candidates are; if it yields a base it is the matched tag and    *)
(* newer_tags is empty.                                                    *)
C4_LatestSourceTestsOnlyFirst ==
    (op = "match" /\ args.latest_source /\ Len(args.sources) > 0
                  /\ HasGroup(Regex(args.pattern), "base")) =>
        IF YieldsBase(Regex(args.pattern), args.sources[1])
        THEN /\ Returned(result)
             /\ result.value.matched_tag = args.sources[1]
             /\ result.value.newer_tags = <<>>
        ELSE /\ RaisedWith(result, "ValueError", NoLatest)
             /\ result.msg.pattern = Regex(args.pattern)
             /\ result.msg.tag = args.sources[1]

(* the first candidate fails although a later one yields a base *)
C4_Witness ==
    /\ op = "match" /\ args.latest_source /\ Len(args.sources) > 1
    /\ HasGroup(Regex(args.pattern), "base")
    /\ ~YieldsBase(Regex(args.pattern), args.sources[1])
    /\ YieldsBase(Regex(args.pattern), args.sources[2])
    /\ RaisedWith(result, "ValueError", NoLatest)

(* the candidates the call tests: the first one with latest_source, all   *)
(* of them without                                                         *)
Tested(sources, latest_source) ==
    IF latest_source THEN SubSeq(sources, 1, IF Len(sources) > 0 THEN 1 ELSE 0)
    ELSE sources

(* C5: if the pattern defines no group named base and matches a candidate *)
(* the call tests, the call fails with the "did not include required      *)
(* capture group" ValueError: not with a no-match error, and without      *)
(* accepting a candidate.                                                  *)
C5_MissingBaseGroupIsDistinctError ==
    (/\ op = "match"
     /\ ~HasGroup(Regex(args.pattern), "base")
     /\ \E k \in 1..Len(Tested(args.sources, args.latest_source)) :
            Matches(Regex(args.pattern), args.sources[k])) =>
        RaisedWith(result, "ValueError", NoBase)

(* the pattern without base skips a candidate and matches the next *)
C5_Witness ==
    /\ op = "match" /\ ~args.latest_source /\ Len(args.sources) > 1
    /\ ~HasGroup(Regex(args.pattern), "base")
    /\ ~Matches(Regex(args.pattern), args.sources[1])
    /\ Matches(Regex(args.pattern), args.sources[2])
    /\ RaisedWith(result, "ValueError", NoBase)

(***************************************************************************)
(* Properties of the equality and the ordering of Versions.                *)
(***************************************************************************)
SameButBase(a, b) ==
    /\ a.stage = b.stage /\ a.revision = b.revision /\ a.distance = b.distance
    /\ a.commit = b.commit /\ a.dirty = b.dirty
    /\ a.tagged_metadata = b.tagged_metadata
    /\ a.base # b.base

(* C6: for two Versions that differ only in base, a > b holds iff the     *)
(* release tuple of a.base is greater than that of b.base; so             *)
(* Version("0.2.0") > Version("0.10.0") is false and                      *)
(* Version("0.10.0") > Version("0.2.0") is true.                          *)
C6_BaseOrderIsNumeric ==
    (op = "compare" /\ SameButBase(args.a, args.b)) =>
        (result.gt <=> TupleLess(Release(args.b.base), Release(args.a.base)))

(* C7: two Versions are equal iff base, stage, revision, distance, commit *)
(* and dirty are pairwise equal, an unset value being equal only to an    *)
(* unset value; tagged_metadata, _matched_tag and _newer_unmatched_tags   *)
(* do not count.                                                           *)
C7_EqualityIsOverSixFields ==
    op = "compare" =>
        LET a == args.a
            b == args.b
            SameOpt(x, y) == (IsNone(x) /\ IsNone(y))
                             \/ (~IsNone(x) /\ ~IsNone(y) /\ Get(x) = Get(y))
        IN /\ result.eq <=> (/\ a.base = b.base
                             /\ SameOpt(a.stage, b.stage)
                             /\ SameOpt(a.revision, b.revision)
                             /\ a.distance = b.distance
                             /\ SameOpt(a.commit, b.commit)
                             /\ SameOpt(a.dirty, b.dirty))
           /\ result.ne <=> ~result.eq

(* equal Versions that differ in every field that does not count *)
C7_Witness ==
    /\ op = "compare" /\ result.eq
    /\ args.a.tagged_metadata # args.b.tagged_metadata
    /\ args.a._matched_tag # args.b._matched_tag
    /\ args.a._newer_unmatched_tags # args.b._newer_unmatched_tags
    /\ args.a.dirty = Some(FALSE)

(***************************************************************************)
(* Properties of serialization.                                            *)
(***************************************************************************)
RECURSIVE AfterFirst(_, _)
AfterFirst(s, c) ==
    IF s = <<>> THEN <<>>
    ELSE IF Head(s) = c THEN Tail(s)
    ELSE AfterFirst(Tail(s), c)

HasChar(s, c) == \E i \in 1..Len(s) : s[i] = c

Contains(s, sub) ==
    \E i \in 1..(Len(s) - Len(sub) + 1) : SubSeq(s, i, i + Len(sub) - 1) = sub

EndsWith(s, suffix) ==
    Len(s) >= Len(suffix) /\ SubSeq(s, Len(s) - Len(suffix) + 1, Len(s)) = suffix

(* the segments of the metadata part of a serialized version: after the   *)
(* "+" and dot-separated for PEP 440 and SemVer, hyphen-separated after   *)
(* the base for PVP                                                        *)
MetadataSegments(out, style) ==
    IF style = Pvp THEN Tail(Split(out, "-"))
    ELSE IF HasChar(out, "+") THEN Split(AfterFirst(out, "+"), ".")
    ELSE <<>>

HasSegment(out, style, segment) ==
    LET segments == MetadataSegments(out, style)
    IN \E i \in 1..Len(segments) : segments[i] = segment

StyleUsed == IF IsNone(args.style) THEN Pep440 ELSE Get(args.style)

(* Version.serialize was called without a format and returned *)
StyleSerialized == op = "serialize" /\ IsNone(args.format) /\ Returned(result)

HasCommit == ~IsNone(args.self.commit)
             /\ HasSegment(result.value, StyleUsed, Get(args.self.commit))
HasDirty == HasSegment(result.value, StyleUsed, Dirty)

(* C1: a string that Version.serialize returns for a style (given, or PEP *)
(* 440 when there is neither style nor format), or that serialize_pep440, *)
(* serialize_semver or serialize_pvp returns, passes check_version for    *)
(* that style.                                                             *)
C1_ReturnedStringPassesCheck ==
    /\ (op = "serialize" /\ Returned(result)
           /\ (IsNone(args.format) \/ ~IsNone(args.style)))
         => check_version(result.value, StyleUsed)
    /\ (op = "serialize_pep440" /\ Returned(result)) => check_version(result.value, Pep440)
    /\ (op = "serialize_semver" /\ Returned(result)) => check_version(result.value, SemVer)
    /\ (op = "serialize_pvp" /\ Returned(result)) => check_version(result.value, Pvp)

(* a SemVer serialization with a stage, a distance and metadata returned *)
C1_Witness ==
    /\ StyleSerialized /\ args.style = Some(SemVer)
    /\ ~IsNone(args.self.stage) /\ args.self.distance > 0
    /\ HasCommit

Post == <<".", "p", "o", "s", "t">>
Dev == <<".", "d", "e", "v">>

RoundTripped == op = "roundtrip" /\ Returned(result)

(* every field of the parsed Version is the field of the serialized one;  *)
(* the serialized Version has no epoch                                     *)
AllPreserved(v, parsed) ==
    /\ __eq__(parsed, v)
    /\ parsed.tagged_metadata = v.tagged_metadata
    /\ IsNone(parsed.epoch)

ToldBySerialize(v) ==
    /\ IsNone(v.dirty)
    /\ IsNone(v.tagged_metadata)
    /\ (IsNone(v.commit) \/ v.distance > 0)
    /\ (IsNone(v.stage) \/ (~IsNone(v.revision) /\ v.distance = 0))

IncrementLast(base) ==
    LET parts == Split(base, ".")
        n == Len(parts)
    IN Join(<<".">>, [k \in 1..n |-> IF k = n THEN Str(ToInt(parts[k]) + 1) ELSE parts[k]])

(* the base and the revision text a bumped serialization of self shows *)
PreviewBase(self) == IF IsNone(self.stage) THEN IncrementLast(self.base) ELSE self.base
PreviewRevision(self) ==
    IF IsNone(self.stage) THEN <<>>
    ELSE IF IsNone(self.revision) THEN <<"2">>
    ELSE Str(Get(self.revision) + 1)

C12_BumpAtTagIsNoBump ==
    (op = "serialize" /\ IsNone(args.format) /\ args.bump /\ args.self.distance = 0) =>
        result = serialize(args.self, args.metadata, args.dirty, None, args.style,
                           FALSE, args.tagged_metadata)

(***************************************************************************)
(* Properties of the stage in the serialized output.                       *)
(***************************************************************************)
StageAliases == {<<"a", "l", "p", "h", "a">>, <<"b", "e", "t", "a">>, <<"c">>,
                 <<"p", "r", "e">>, <<"p", "r", "e", "v", "i", "e", "w">>}
IsAlias(stage) == ~IsNone(stage) /\ lower(Get(stage)) \in StageAliases

(* C13: for a stage that is an alias (alpha, beta, c, pre, preview, in    *)
(* any case) serialize_pep440 and the PEP 440 Version.serialize return,   *)
(* and the output has the canonical a, b or rc with the revision after    *)
(* the base; the SemVer and PVP outputs have the stage name as given.      *)
C13_Pep440StageAliases ==
    /\ (op = "serialize_pep440" /\ IsAlias(args.stage)) =>
          /\ Returned(result)
          /\ Contains(result.value,
                      args.base \o alternative_stages(Get(args.stage))
                                \o Str(_blank(args.revision, 0)))
    /\ (op = "serialize" /\ IsNone(args.format) /\ ~args.bump
                         /\ StyleUsed = Pep440 /\ IsAlias(args.self.stage)) =>
          /\ Returned(result)
          /\ Contains(result.value,
                      args.self.base \o alternative_stages(Get(args.self.stage))
                                     \o Str(_blank(args.self.revision, 0)))
    /\ (StyleSerialized /\ StyleUsed # Pep440 /\ ~IsNone(args.self.stage)) =>
          Contains(result.value, args.self.base \o <<"-">> \o Get(args.self.stage))

(* C14: in the PEP 440 output a stage named post is the .postN segment:   *)
(* Version("0.1.0", stage=("post", 1)).serialize() is "0.1.0.post1".      *)
C14_PostStageIsPostSegment ==
    (op = "serialize" /\ IsNone(args.format) /\ ~args.bump /\ StyleUsed = Pep440
                     /\ args.self.stage = Some(<<"p", "o", "s", "t">>)
                     /\ args.self.distance = 0) =>
        /\ Returned(result)
        /\ BeforeFirst(result.value, "+") =
               args.self.base \o Post \o Str(_blank(args.self.revision, 0))

(***************************************************************************)
(* Properties of the format branch of Version.serialize.                   *)
(***************************************************************************)
(* the text the template of the call renders to *)
Rendered ==
    serialize(args.self, args.metadata, args.dirty, args.format, None, args.bump,
              args.tagged_metadata).value

(* C15: with a format and a style, serialize returns the rendered text if *)
(* it conforms to the style and raises ValueError if it does not; with a  *)
(* format and no style it returns the rendered text whatever it is.        *)
C15_FormatIsCheckedOnlyWithStyle ==
    (op = "serialize" /\ ~IsNone(args.format)) =>
        IF IsNone(args.style) \/ check_version(Rendered, StyleUsed)
        THEN result = Ret(Rendered)
        ELSE Raised(result) /\ result.exc = "ValueError"

(* a rendered text with a leading v is refused for the style given *)
C15_Witness ==
    /\ op = "serialize" /\ ~IsNone(args.format) /\ ~IsNone(args.style)
    /\ Head(Rendered) = "v"
    /\ Raised(result) /\ result.exc = "ValueError"

(***************************************************************************)
(* Properties of check_version.                                            *)
(***************************************************************************)
IsNumber(s) == IsDigits(s)
(* dot-separated, non-empty identifiers of ASCII letters, digits, hyphens *)
IsIdentifiers(s) ==
    LET ids == Split(s, ".")
    IN \A i \in 1..Len(ids) :
          /\ Len(ids[i]) > 0
          /\ \A j \in 1..Len(ids[i]) : ids[i][j] \in Digit \cup Lower \cup Upper \cup {"-"}

(* N.N.N[-ids][+ids] without a numeric segment with a leading zero before *)
(* the "+"                                                                 *)
IsSemVer(s) ==
    LET public == BeforeFirst(s, "+")
        core == Split(BeforeFirst(public, "-"), ".")
        segments == SplitAny(public, {".", "-"})
    IN /\ Len(core) = 3 /\ \A i \in 1..3 : IsNumber(core[i])
       /\ HasChar(public, "-") => IsIdentifiers(AfterFirst(public, "-"))
       /\ HasChar(s, "+") => IsIdentifiers(AfterFirst(s, "+"))
       /\ \A i \in 1..Len(segments) :
             ~(IsNumber(segments[i]) /\ Len(segments[i]) > 1 /\ segments[i][1] = "0")

(* C16: check_version(s, Style.SemVer) returns iff s is N.N.N[-ids][+ids] *)
(* with identifiers of ASCII letters, digits and hyphens only and no      *)
(* numeric segment with a leading zero before the "+".                     *)
C16_SemVerGrammar ==
    (op = "check_version" /\ args.style = SemVer) =>
        (Returned(result) <=> IsSemVer(args.version))

(***************************************************************************)
(* Properties of bump_version.                                             *)
(***************************************************************************)
Components(base) ==
    LET parts == Split(base, ".") IN [k \in 1..Len(parts) |-> ToInt(parts[k])]

(* the base with the component at position at (from 1) one higher and     *)
(* every later component 0                                                 *)
BumpedAt(base, at) ==
    LET c == Components(base)
    IN Join(<<".">>, [k \in 1..Len(c) |->
                        Str(IF k < at THEN c[k] ELSE IF k = at THEN c[k] + 1 ELSE 0)])

(* C17: for a base of n components, bump_version with an index i in       *)
(* [-n, n-1] returns the base with the component at i (from the left for  *)
(* i >= 0, from the right for i < 0) one higher and every component to    *)
(* its right 0, so the indices i and i - n give the same result; any      *)
(* other index raises IndexError.                                          *)
C17_BumpZeroesToTheRight ==
    op = "bump_version" =>
        LET n == Len(Components(args.base))
            i == args.index
        IN /\ (0 <= i /\ i < n) =>
                 /\ result = Ret(BumpedAt(args.base, i + 1))
                 /\ result = bump_version(args.base, i - n)
           /\ (0 - n <= i /\ i < 0) => result = Ret(BumpedAt(args.base, n + i + 1))
           /\ (i >= n \/ i < 0 - n) => (Raised(result) /\ result.exc = "IndexError")

(* index -3 of "1.9.9" gives "2.0.0" *)
C17_Witness ==
    /\ op = "bump_version"
    /\ args.base = <<"1", ".", "9", ".", "9">> /\ args.index = -3
    /\ result = Ret(<<"2", ".", "0", ".", "0">>)

(***************************************************************************)
(* Properties of the version control backends.                             *)
(***************************************************************************)
(* the tags the backend lists as candidates: those on the checked-out     *)
(* revision and the revisions before it                                    *)
Listed(repo) ==
    {t \in TagsOf(repo) :
        IF repo.vcs = "subversion" THEN t.own <= Checkout(repo)
        ELSE t.labels <= Checkout(repo)}

(* the revisions after the one the tag labels up to the checked-out one,  *)
(* the creation of the tag not counted                                     *)
Past(repo, t) == Cardinality({r \in (t.labels + 1)..Checkout(repo) : r # t.own})

(* C18: in a repository without any tag every backend returns a Version   *)
(* with base "0.0.0", the number of revisions up to the checked-out one   *)
(* as distance (0 when there is none), the commit and the dirty flag it   *)
(* detected, and no matched tag and no newer unmatched tags.               *)
C18_UntaggedRepository ==
    (op = "from_vcs" /\ TagsOf(args.repo) = {}) =>
        /\ Returned(result)
        /\ result.value.base = <<"0", ".", "0", ".", "0">>
        /\ result.value.distance = Checkout(args.repo)
        /\ Checkout(args.repo) > 0 =>
              /\ result.value.commit = Some(CommitId(args.repo))
              /\ result.value.dirty = Some(args.repo.dirty)
        /\ IsNone(result.value._matched_tag)
        /\ IsNone(result.value._newer_unmatched_tags)

C20_DistanceCountsCommitsPastTag ==
    (op = "from_vcs" /\ Returned(result)) =>
        /\ result.value.distance >= 0
        /\ ~IsNone(result.value._matched_tag) =>
              result.value.distance =
                  Past(args.repo, TagNamed(TagsOf(args.repo), Get(result.value._matched_tag)))

(***************************************************************************)
(* Properties of the groups the matcher reads.                             *)
(***************************************************************************)
(* C24: the matcher returns a candidate only with a base that is not the  *)
(* empty string: a candidate whose base group is unset or empty is never  *)
(* the matched tag.                                                        *)
C24_AcceptedBaseIsNotEmpty ==
    (op = "match" /\ Returned(result)) =>
        /\ YieldsBase(Regex(args.pattern), result.value.matched_tag)
        /\ result.value.base # <<>>

(* what the group took in the match of the accepted candidate *)
Captured(name) == Get(re_search(Regex(args.pattern), result.value.matched_tag))[name]

(* C25: the optional groups are read independently of each other: a      *)
(* captured stage gives stage_revision (stage, int(revision)), or (stage, *)
(* None) when no revision was captured or the pattern defines none, and a *)
(* captured tagged_metadata is carried as it is, whichever other groups   *)
(* the pattern defines.                                                    *)
C25_OptionalGroupsIndependent ==
    (op = "match" /\ Returned(result)) =>
        LET groups == GroupNames(Regex(args.pattern))
        IN /\ ("stage" \in groups /\ ~IsNone(Captured("stage"))) =>
                 result.value.stage_revision =
                     Some(<<Get(Captured("stage")),
                            IF "revision" \in groups /\ ~IsNone(Captured("revision"))
                            THEN Some(ToInt(Get(Captured("revision"))))
                            ELSE None>>)
           /\ ("tagged_metadata" \in groups /\ ~IsNone(Captured("tagged_metadata"))) =>
                 result.value.tagged_metadata = Captured("tagged_metadata")

(* C29: whenever the matcher accepts no candidate it raises a ValueError, *)
(* for every candidate list, the empty one included, and both values of   *)
(* latest_source.                                                          *)
C29_NoCandidateIsValueError ==
    (op = "match" /\ ~Returned(result)) => (Raised(result) /\ result.exc = "ValueError")

(***************************************************************************)
(* Properties of the comparisons taken together.                           *)
(***************************************************************************)
(* C28: the comparisons form a strict order consistent with equality:     *)
(* for two Versions a and b exactly one of a < b, a == b, a > b holds,    *)
(* a < b holds iff b > a, and a > b and b > a never hold together.         *)
C28_ComparisonsFormStrictOrder ==
    op = "compare" =>
        /\ Cardinality({k \in {"lt", "eq", "gt"} : result[k]}) = 1
        /\ result.lt <=> __gt__(args.b, args.a)
        /\ ~(result.gt /\ __gt__(args.b, args.a))

(***************************************************************************)
(* Properties of get_version.                                              *)
(***************************************************************************)
(* C30: for a package that is not installed, without callbacks and        *)
(* without an explicit fallback, get_version returns a Version equal to   *)
(* Version("0.0.0") on every call, whatever calls and whatever            *)
(* assignments to returned Versions came before.                           *)
C30_FallbackIsAlwaysZero ==
    (/\ op = "get_version"
     /\ args.name \notin InstalledPackages
     /\ IsNone(args.first_choice) /\ IsNone(args.third_choice)
     /\ IsNone(args.fallback)) =>
        /\ Returned(result)
        /\ __eq__(result.value, Version(<<"0", ".", "0", ".", "0">>, None, 0, None, None, None))

(***************************************************************************)
(* Properties of the detection and of the external commands.               *)
(***************************************************************************)
(* C21: without an expected system the detection takes the first of Git,  *)
(* Mercurial, Darcs, Subversion, Bazaar, Fossil whose program is found    *)
(* and whose probe exits with 0, whatever later systems would succeed,    *)
(* and raises RuntimeError "Unable to detect version control system."     *)
(* when there is none.                                                     *)
C21_DetectionTakesFirstInOrder ==
    (op = "_detect_vcs" /\ IsNone(args.expected_vcs)) =>
        LET order == <<"git", "mercurial", "darcs", "subversion", "bazaar", "fossil">>
            passing == {k \in 1..6 : order[k] \in args.installed \cap args.succeeding}
        IN IF passing = {}
           THEN RaisedWith(result, "RuntimeError",
                           "Unable to detect version control system.")
           ELSE /\ Returned(result)
                /\ \E k \in passing : /\ result.value = order[k]
                                       /\ \A j \in passing : k <= j

(* Darcs is taken though the probes of Subversion and Fossil succeed as   *)
(* well and the probe of Git, which is found, fails                        *)
C21_Witness ==
    /\ op = "_detect_vcs" /\ IsNone(args.expected_vcs)
    /\ args.installed = Vcs
    /\ args.succeeding = {"darcs", "subversion", "fossil"}
    /\ result = Ret("darcs")

(* the codes a call site allows; the empty set allows every code *)
AllowedCodes(command) ==
    IF command \in {Probe(vcs) : vcs \in Vcs} THEN {}
    ELSE IF command = "git log -n 1 --format=format:%h" THEN {0, 128}
    ELSE IF command = "darcs status" THEN {0, 1}
    ELSE {0}

(* the same derivation where no command fails *)
Unfailing ==
    from_vcs(args.repo.vcs, [args.repo EXCEPT !.fails = "", !.code = 0],
             Regex(args.pattern), args.latest_tag, "tags")

(* C22: a command that exits with a code its call site does not allow     *)
(* ends the derivation with a RuntimeError that holds the command, the    *)
(* code and the output; no Version is returned.  The command is known to  *)
(* have run when the result differs from that of the same derivation      *)
(* without the failure.                                                    *)
C22_UnexpectedCodeEndsDerivation ==
    (/\ op = "from_vcs (a command fails)"
     /\ AllowedCodes(args.repo.fails) # {}
     /\ args.repo.code \notin AllowedCodes(args.repo.fails)
     /\ result # Unfailing) =>
        /\ Raised(result)
        /\ result.exc = "RuntimeError"
        /\ result.msg.command = args.repo.fails
        /\ result.msg.code = args.repo.code
        /\ result.msg.output = FailureOutput

(* C23: with the system left to be detected and Subversion detected, the  *)
(* derivation with tag_dir = D gives what Version.from_subversion gives   *)
(* with tag_dir = D.                                                       *)
C23_TagDirReachesSubversion ==
    (/\ op = "from_vcs (tag_dir)"
     /\ args.vcs = "any"
     /\ _detect_vcs(None, args.repo.installed, Succeeding(args.repo))
            = Ret("subversion")) =>
        result = from_subversion(args.repo, Regex(args.pattern), args.latest_tag,
                                 args.tag_dir)

(***************************************************************************)
(* Properties of the order of the candidate tags.                          *)
(***************************************************************************)
(* the best date of a Git tag: that of its creation when it is annotated, *)
(* that of its commit when it is lightweight                               *)
BestDate(repo, t) ==
    IF repo.annotated THEN t.created
    ELSE CHOOSE i \in 1..Len(repo.history) :
            ~IsTag(repo.history[i]) /\ CommitsUpTo(repo.history, i) = t.labels

(* the candidates that count against the matched tag: all of them with    *)
(* latest_tag, those that yield a base without                             *)
Rivals ==
    {t \in Listed(args.repo) :
        args.latest_tag \/ YieldsBase(Regex(args.pattern), t.name)}

MatchedTag == TagNamed(TagsOf(args.repo), Get(result.value._matched_tag))

(* C26: in Git the candidates are tried from the tagged commit nearest to *)
(* HEAD on and, on one commit, from the newest best date on: no candidate *)
(* on a nearer commit, and none on the same commit with a later best      *)
(* date, comes after the matched tag; so of two matching tags on one      *)
(* commit the one created later is matched with latest_tag false and true. *)
C26_GitNearestThenNewest ==
    (/\ op = "from_vcs" /\ args.repo.vcs = "git"
     /\ Returned(result) /\ ~IsNone(result.value._matched_tag)) =>
        \A t \in Rivals :
            \/ t.labels < MatchedTag.labels
            \/ /\ t.labels = MatchedTag.labels
               /\ BestDate(args.repo, t) <= BestDate(args.repo, MatchedTag)

(* v1 and then v2, annotated, on the only commit: v2 is matched with      *)
(* latest_tag                                                              *)
C26_Witness ==
    /\ op = "from_vcs" /\ args.repo.vcs = "git" /\ args.repo.annotated
    /\ args.repo.history = <<<<>>, <<"v", "1">>, <<"v", "2">>>>
    /\ args.latest_tag /\ args.pattern = "_VERSION_PATTERN"
    /\ Returned(result) /\ result.value._matched_tag = Some(<<"v", "2">>)

(* C27: in Subversion the candidates are tried from the highest source    *)
(* revision on and, of one source revision, from the highest revision of  *)
(* the tag directory on; the source revision of the matched tag is not    *)
(* after the revision of the working copy.                                 *)
C27_SubversionHighestSourceFirst ==
    (/\ op = "from_vcs" /\ args.repo.vcs = "subversion"
     /\ Returned(result) /\ ~IsNone(result.value._matched_tag)) =>
        /\ MatchedTag.labels <= Checkout(args.repo)
        /\ \A t \in Rivals :
              \/ t.labels < MatchedTag.labels
              \/ t.labels = MatchedTag.labels /\ t.own <= MatchedTag.own

(* v1 copied from revision 2 and then v2 copied from revision 1: v1 is    *)
(* matched                                                                 *)
C27_Witness ==
    /\ op = "from_vcs" /\ args.repo.vcs = "subversion" /\ args.repo.older
    /\ args.repo.history = <<<<>>, <<>>, <<"v", "1">>, <<"v", "2">>>>
    /\ args.repo.behind = 0 /\ ~args.latest_tag /\ args.pattern = "_VERSION_PATTERN"
    /\ Returned(result) /\ result.value._matched_tag = Some(<<"v", "1">>)
====
